---- MODULE Spec2Model ----
(***************************************************************************)
(* Model of the XXMI Launcher application core (src/xxmi_launcher/app.py): *)
(* the task runner (run_as_thread / wrap_errors), the error channel and    *)
(* its drain tick (check_threads / report_thread_error), the shutdown      *)
(* sequence (exit / watchdog), the launch sequence (launch) and the        *)
(* entry points of package updates.                                        *)
(*                                                                         *)
(* Threads: one control thread (the Tk main loop, program counter mpc),    *)
(* the watchdog thread (wpc) and the background units Tid (tst, kind).     *)
(* Every Python statement that reads or writes state shared between        *)
(* threads is a step of its own, so that every interleaving is explored.   *)
(* Time is measured in watchdog polls (one poll = one time.sleep(0.1)).    *)
(***************************************************************************)
EXTENDS Integers, Sequences, FiniteSets, TLC

\* Number of background units that may be dispatched in one run.
MaxThreads == 2

\* Watchdog polls that fit in the grace period (code: 5 s / 0.1 s).
GracePolls == 2

Tid == 1..MaxThreads

VARIABLES
    proc,           \* "running" | "exited" (os._exit in exit) | "killed" (os._exit in watchdog)
    mpc,            \* control thread position
    gui_state,      \* self.gui.state(): "normal" | "iconic"
    gui_shown,      \* self.gui.is_shown()
    tick_pending,   \* a check_threads callback is scheduled with gui.after
    prune_tmp,      \* list built by the comprehension of check_threads, before assignment
    threads,        \* self.threads
    error_queue,    \* self.error_queue (FIFO of the raising unit's id)
    shown,          \* errors surfaced by report_thread_error, in order
    tick_reports,   \* errors surfaced by the check_threads tick in progress
    tick_done0,     \* units that had terminated when the tick in progress fired
    kind,           \* callback of each background unit
    tst,            \* "new" | "created" | "running" | "raised" | "hung" | "returned" | "failed"
    escaped,        \* an error left the background unit un-caught
    is_alive,       \* self.is_alive
    wpc,            \* watchdog position
    wd_polls,       \* sleeps the watchdog has finished
    ji,             \* index of exit()'s join loop into self.threads
    saves,          \* calls of Config.Config.save()
    flag_set_poll,  \* wd_polls when exit() cleared is_alive (-1 before)
    pushed_at_join, \* errors pushed up to the moment exit() cleared is_alive
    after_ready,    \* pending gui.after(100, Events.Fire, Ready()) callbacks
    stage,          \* LauncherFrame stage: "Ready" | "Busy"
    launching_game, \* self.launching_game
    cfg,            \* Config.Active.Importer hooks and Config.Launcher.auto_close
    lpc,            \* position of each launch() call
    lrec,           \* what each launch() call has done so far
    cmd,            \* shell commands spawned by each launch(): "none" | "running" | "exited" | "failed"
    close_fired,    \* Events.Application.Close(delay=1000) fired
    installed,      \* installed_version of each package ("" = not installed)
    latest,         \* latest_version of each package ("" = unknown)
    skipped,        \* skipped_version of each package
    notif,          \* last VersionNotification broadcast (get_version_notification)
    owner,          \* unit holding the install transition of each package (0 = none)
    upc,            \* position of each unit in its update or importer callback
    ucall,          \* the update_packages call each unit is in
    args_update,    \* self.args.update
    warnings,       \* callbacks that have fired a ShowWarning event
    infos,          \* callbacks that have fired a ShowInfo event
    active_importer,\* Config.Launcher.active_importer
    config_active,  \* Config.Active (the importer section it refers to)
    loaded,         \* importer packages loaded by load_package
    larg,           \* arguments and call log of each load_importer call
    sync,           \* the last run_as_thread call with no_thread=True
    dflt,           \* self.args.xxmi, self.args.msi and what get_default_xxmi returned
    fa,             \* the VerifyFileAccess request being handled, the file and the outcome
    fr              \* main action buttons of LauncherFrame and the event being delivered

runnerVars == <<threads, error_queue, shown, tick_reports, kind, tst, escaped>>
guiVars    == <<gui_state, gui_shown, tick_pending, prune_tmp, tick_done0, after_ready, stage>>
exitVars   == <<proc, is_alive, wpc, wd_polls, ji, saves, flag_set_poll, pushed_at_join>>
auxVars    == <<dflt, fa, fr>>
restVars   == <<cfg, sync, auxVars>>
launchVars == <<launching_game, restVars, lpc, lrec, cmd, close_fired>>
verVars    == <<installed, latest, skipped, notif>>
updVars    == <<owner, upc, ucall, args_update, warnings, infos>>
impVars    == <<active_importer, config_active, loaded, larg>>
coreVars   == <<mpc, runnerVars, guiVars, exitVars, launching_game, cfg, sync, lpc, lrec, cmd,
                close_fired, verVars, updVars>>
featVars   == <<launchVars, verVars, updVars, impVars>>
vars       == <<mpc, runnerVars, guiVars, exitVars, featVars>>

Running == proc = "running"

RECURSIVE SeqToSet(_)
SeqToSet(s) == IF s = <<>> THEN {} ELSE {Head(s)} \cup SeqToSet(Tail(s))

\* threading.Thread.is_alive(): started and not yet terminated
IsAlive(t) == tst[t] \in {"running", "raised", "hung"}

\* The unit's thread has ended: its callback returned, or it raised and
\* wrap_errors handled the error.
Terminated(t) == tst[t] \in {"returned", "failed"}

\* What one launch() call has done: passed the guard, fired Busy, fired the game
\* start signal ("none" | "running" | "returned" | "raised"), raised in steps 1-3,
\* cleared the flag, scheduled Ready, fired Close; name is the importer named in
\* the text of the error that the except clause raises ("none": no such error).
NoLaunch == [passed |-> FALSE, busy |-> FALSE, game |-> "none", exc |-> FALSE,
             cleared |-> FALSE, ready |-> FALSE, close |-> FALSE, name |-> "none"]

NoCmd == [pre |-> "none", post |-> "none"]

\* Config of a default installation: no hooks, launcher stays open.
DefaultCfg == [pre_on |-> FALSE, pre_wait |-> FALSE, post_on |-> FALSE,
               post_wait |-> FALSE, auto_close |-> FALSE, auto_update |-> FALSE]

\* self.packages, in order (two of the seven packages)
PkgOrder == <<"GIMI", "SRMI">>

Pkgs == {PkgOrder[i] : i \in 1..Len(PkgOrder)}

\* Config.Importers: the importer packages
Importers == {"GIMI", "SRMI"}

\* Version strings
Versions == {"", "1.2", "1.3"}

\* update_packages arguments of a unit that is in no call
NoCall == [no_install |-> FALSE, no_check |-> FALSE, reinstall |-> FALSE,
           p |-> 0, ret |-> "none", exc |-> "none"]

\* A load_importer call: its arguments, the importer that was active when it
\* was entered, and the package manager calls it has made so far, in order
NoLoad == [id |-> "none", reload |-> FALSE, old |-> "none", calls |-> <<>>]

\* PackageVersionState of every package, as a VersionNotification carries it
Snapshot(i, l, s) ==
    [p \in Pkgs |-> [installed_version |-> i[p], latest_version |-> l[p],
                     skipped_version |-> s[p]]]

\* A run_as_thread call with no_thread=True: where it is ("none" | "callback" |
\* "returned" | "raised"), the keyword arguments it was given and those it passed
\* to the callback, what the callback returned and what the caller got back
NoSync == [state |-> "none", given |-> {}, passed |-> {}, cbret |-> "None",
           ret |-> "None"]

\* __init__: the state it builds whatever the command line
InitBody ==
    /\ proc = "running"
    /\ sync = NoSync
    /\ gui_state = "normal"
    /\ prune_tmp = <<>>
    /\ threads = <<>>
    /\ error_queue = <<>>
    /\ shown = <<>>
    /\ tick_reports = 0
    /\ tick_done0 = {}
    /\ kind = [t \in Tid |-> "none"]
    /\ tst = [t \in Tid |-> "new"]
    /\ escaped = [t \in Tid |-> FALSE]
    /\ is_alive = TRUE
    /\ wpc = "off"
    /\ wd_polls = 0
    /\ ji = 0
    /\ saves = 0
    /\ flag_set_poll = -1
    /\ pushed_at_join = {}
    /\ after_ready = 0
    /\ stage = "Ready"
    /\ launching_game = FALSE
    /\ lpc = [t \in Tid |-> "idle"]
    /\ lrec = [t \in Tid |-> NoLaunch]
    /\ cmd = [t \in Tid |-> NoCmd]
    /\ close_fired = 0
    /\ owner = [p \in Pkgs |-> 0]
    /\ upc = [t \in Tid |-> "idle"]
    /\ ucall = [t \in Tid |-> NoCall]
    /\ args_update = FALSE
    /\ warnings = {}
    /\ infos = {}
    /\ active_importer = "GIMI"
    /\ config_active = "GIMI"
    /\ loaded = {"GIMI"}
    /\ larg = [t \in Tid |-> NoLoad]

\* Python's None
NoneValue == "None"

\* The command line gave neither --xxmi nor --msi; get_default_xxmi has returned
NoDefault == [xxmi |-> NoneValue, msi_given |-> FALSE, msi |-> <<>>,
              called |-> TRUE, result |-> NoneValue]

\* State of the parts that are not exercised by the run at hand
\* No VerifyFileAccess request has been made (outcome "none": no error raised)
NoAccess == [read |-> FALSE, write |-> FALSE, exe |-> FALSE,
             readable |-> TRUE, read_only |-> FALSE, write_ok |-> TRUE,
             read_only0 |-> FALSE, pc |-> "done", prompts |-> 0, answer |-> "none",
             read_checks |-> 0, write_checks |-> 0, outcome |-> "none"]

\* The main action buttons in the order LauncherFrame.__init__ creates them
\* (and so subscribes them)
ButtonOrder == <<"Update", "Tools", "Start", "Install">>

Buttons == {ButtonOrder[i] : i \in 1..Len(ButtonOrder)}

NoEvent == [type |-> "none"]

\* The buttons as created: no stage received yet, hidden until the first event
\* shows them; no event being delivered, no load_importer call pending
FrameAtStart ==
    [stage |-> [b \in Buttons |-> NoneValue],
     shown |-> [b \in Buttons |-> FALSE],
     enabled |-> [b \in Buttons |-> TRUE],
     enabled0 |-> [b \in Buttons |-> TRUE],
     ev |-> NoEvent, todo |-> <<>>, loading |-> {}]

AuxIdle ==
    /\ dflt = NoDefault
    /\ fa = NoAccess
    /\ fr = FrameAtStart

\* Config loaded at startup: every package installed at 1.2, nothing newer
\* known, nothing skipped; notify_package_versions has broadcast this state
VersionsAtStart ==
    /\ installed = [p \in Pkgs |-> "1.2"]
    /\ latest = [p \in Pkgs |-> "1.2"]
    /\ skipped = [p \in Pkgs |-> ""]
    /\ notif = Snapshot(installed, latest, skipped)

\* __init__ without --nogui has run up to self.gui.open(): the window is shown,
\* check_threads is scheduled and the main loop runs
InitCore ==
    /\ InitBody
    /\ AuxIdle
    /\ VersionsAtStart
    /\ mpc = "mainloop"
    /\ gui_shown = TRUE
    /\ tick_pending = TRUE

Init == InitCore /\ cfg = DefaultCfg

(***************************************************************************)
(* Task runner                                                             *)
(***************************************************************************)

\* run_as_thread without no_thread, called on the control thread:
\* Thread(target=wrap_errors); self.threads.append(thread); thread.start()
RunAsThread(t, cb) ==
    /\ tst[t] = "new"
    /\ \A u \in Tid : u < t => tst[u] # "new"
    /\ threads' = Append(threads, t)
    /\ kind' = [kind EXCEPT ![t] = cb]
    /\ tst' = [tst EXCEPT ![t] = "running"]

\* An event handled in the main loop dispatches a callback as a background unit.
Dispatch(t) ==
    /\ Running /\ mpc = "mainloop"
    /\ RunAsThread(t, "cb")
    /\ UNCHANGED <<mpc, error_queue, shown, tick_reports, escaped, guiVars, exitVars, featVars>>

\* wrap_errors: callback(*args, **kwargs) returns normally
CallbackReturns(t) ==
    /\ Running /\ tst[t] = "running" /\ kind[t] = "cb"
    /\ tst' = [tst EXCEPT ![t] = "returned"]
    /\ UNCHANGED <<mpc, threads, error_queue, shown, tick_reports, kind, escaped, guiVars, exitVars, featVars>>

\* wrap_errors: callback(*args, **kwargs) raises an Exception
CallbackRaises(t) ==
    /\ Running /\ tst[t] = "running" /\ kind[t] = "cb"
    /\ tst' = [tst EXCEPT ![t] = "raised"]
    /\ UNCHANGED <<mpc, threads, error_queue, shown, tick_reports, kind, escaped, guiVars, exitVars, featVars>>

\* The callback blocks for ever (a stalled download, a command that never exits).
CallbackHangs(t) ==
    /\ Running /\ tst[t] = "running" /\ kind[t] = "cb"
    /\ tst' = [tst EXCEPT ![t] = "hung"]
    /\ UNCHANGED <<mpc, threads, error_queue, shown, tick_reports, kind, escaped, guiVars, exitVars, featVars>>

\* A plausible slip: the handler re-raises after queueing nothing.
WrapErrorsNoCatch(t) ==
    /\ error_queue' = error_queue
    /\ escaped' = [escaped EXCEPT ![t] = TRUE]

\* wrap_errors: except Exception as e: self.error_queue.put_nowait((e, trace))
\* The queue is unbounded, so put_nowait always succeeds at once.
WrapErrorsCatch(t) ==
    /\ error_queue' = Append(error_queue, t)
    /\ escaped' = escaped

WrapErrors(t) ==
    /\ Running /\ tst[t] = "raised"
    /\ WrapErrorsCatch(t)
    /\ tst' = [tst EXCEPT ![t] = "failed"]
    /\ UNCHANGED <<mpc, threads, shown, tick_reports, kind, guiVars, exitVars, featVars>>

\* Keyword arguments a caller may give to run_as_thread: with or without a
\* keyword of the callback's own ("k"), with or without no_thread
KwargSets == {{}, {"k"}, {"no_thread"}, {"k", "no_thread"}}

\* Values a callback may return
Vals == {"a", "b"}

\* run_as_thread: if 'no_thread' in kwargs: no_thread = kwargs['no_thread']
\* else: no_thread = False
NoThread(keys, v) == IF "no_thread" \in keys THEN v ELSE FALSE

\* run_as_thread: del kwargs['no_thread']
KwargsPassed(keys) == keys \ {"no_thread"}

\* A plausible slip: the callback is called without "return".
SyncResultDropped(v) == "None"

\* run_as_thread: return callback(*args, **kwargs)
SyncResult(v) == v

\* run_as_thread(callback, **kwargs) called on the control thread, kwargs with
\* or without no_thread (value v): with no_thread true the callback is entered
\* on the calling thread, else a background unit is started.
RunAsThreadCall ==
    /\ Running /\ mpc = "mainloop"
    /\ \E keys \in KwargSets, v \in BOOLEAN :
          IF NoThread(keys, v)
            THEN /\ sync' = [NoSync EXCEPT !.state = "callback", !.given = keys,
                                           !.passed = KwargsPassed(keys)]
                 /\ mpc' = "sync_cb"
                 /\ UNCHANGED <<threads, kind, tst>>
            ELSE /\ \E t \in Tid : RunAsThread(t, "cb")
                 /\ UNCHANGED <<sync, mpc>>
    /\ UNCHANGED <<error_queue, shown, tick_reports, escaped, guiVars, exitVars,
                   launching_game, cfg, auxVars, lpc, lrec, cmd, close_fired, verVars,
                   updVars, impVars>>

\* The callback called with no_thread returns a value, which run_as_thread
\* returns in turn, or raises: nothing in run_as_thread catches the error, it
\* reaches the caller.
SyncCallbackEnds ==
    /\ Running /\ mpc = "sync_cb"
    /\ \/ \E v \in Vals :
             sync' = [sync EXCEPT !.state = "returned", !.cbret = v,
                                  !.ret = SyncResult(v)]
       \/ sync' = [sync EXCEPT !.state = "raised"]
    /\ mpc' = "mainloop"
    /\ UNCHANGED <<runnerVars, guiVars, exitVars, launching_game, cfg, auxVars, lpc, lrec,
                   cmd, close_fired, verVars, updVars, impVars>>

(***************************************************************************)
(* Error channel drain: check_threads / report_thread_error                *)
(***************************************************************************)

\* The main loop runs the scheduled check_threads callback.
TickFire ==
    /\ Running /\ mpc = "mainloop" /\ tick_pending
    /\ tick_pending' = FALSE
    /\ tick_reports' = 0
    /\ tick_done0' = {t \in Tid : Terminated(t)}
    /\ mpc' = "ct_after"
    /\ UNCHANGED <<threads, error_queue, shown, kind, tst, escaped,
                   gui_state, gui_shown, prune_tmp, after_ready, stage, exitVars, featVars>>

\* check_threads: self.gui.after(50, self.check_threads), then the list
\* comprehension [thread for thread in self.threads if thread.is_alive()]
TickReschedule ==
    /\ Running /\ mpc = "ct_after"
    /\ tick_pending' = TRUE
    /\ prune_tmp' = SelectSeq(threads, IsAlive)
    /\ mpc' = "ct_assign"
    /\ UNCHANGED <<runnerVars, gui_state, gui_shown, tick_done0, after_ready, stage, exitVars, featVars>>

\* check_threads: self.threads = <the list built>
TickPrune ==
    /\ Running /\ mpc = "ct_assign"
    /\ threads' = prune_tmp
    /\ prune_tmp' = <<>>
    /\ mpc' = "ct_report"
    /\ UNCHANGED <<error_queue, shown, tick_reports, kind, tst, escaped,
                   gui_state, gui_shown, tick_pending, tick_done0, after_ready, stage, exitVars, featVars>>

\* A plausible slip: the state test is dropped, errors are reported in any state.
SkipReportAlways == FALSE

\* check_threads: if self.gui.state() != 'normal': return
SkipReport == gui_state # "normal"

\* A plausible slip: report_thread_error loops until the queue is empty.
ReportDrainAll(next) ==
    /\ error_queue # <<>>
    /\ shown' = shown \o error_queue
    /\ error_queue' = <<>>
    /\ tick_reports' = tick_reports + Len(error_queue)
    /\ mpc' = next

\* report_thread_error: (error, trace) = self.error_queue.get_nowait(), then the
\* modal self.gui.show_messagebox(ShowError(...)), which blocks the control thread.
ReportThreadError(next) ==
    /\ error_queue # <<>>
    /\ shown' = Append(shown, Head(error_queue))
    /\ error_queue' = Tail(error_queue)
    /\ tick_reports' = tick_reports + 1
    /\ mpc' = next

\* check_threads: the try block; queue.Empty ends the tick.
TickReport ==
    /\ Running /\ mpc = "ct_report"
    /\ IF SkipReport \/ error_queue = <<>>
         THEN /\ mpc' = "mainloop"
              /\ UNCHANGED <<error_queue, shown, tick_reports>>
         ELSE ReportThreadError("ct_dialog")
    /\ UNCHANGED <<threads, kind, tst, escaped, guiVars, exitVars, featVars>>

\* The user dismisses the error dialog; report_thread_error continues:
\* if self.gui.is_shown(): self.gui.after(100, Events.Fire, Ready())
TickDialogDismiss ==
    /\ Running /\ mpc = "ct_dialog"
    /\ after_ready' = IF gui_shown THEN after_ready + 1 ELSE after_ready
    /\ mpc' = "mainloop"
    /\ UNCHANGED <<runnerVars, gui_state, gui_shown, tick_pending, prune_tmp, tick_done0, stage,
                   exitVars, featVars>>

\* The main loop runs a scheduled Events.Fire(Ready()); LauncherFrame's
\* subscriber fires StageUpdate(Stage.Ready).
DeliverReady ==
    /\ Running /\ mpc = "mainloop" /\ after_ready > 0
    /\ after_ready' = after_ready - 1
    /\ stage' = "Ready"
    /\ UNCHANGED <<mpc, runnerVars, gui_state, gui_shown, tick_pending, prune_tmp, tick_done0,
                   exitVars, featVars>>

\* The user minimizes or restores the window.
ToggleWindow ==
    /\ Running /\ mpc = "mainloop"
    /\ gui_state' = IF gui_state = "normal" THEN "iconic" ELSE "normal"
    /\ UNCHANGED <<mpc, runnerVars, gui_shown, tick_pending, prune_tmp, tick_done0, after_ready, stage,
                   exitVars, featVars>>

(***************************************************************************)
(* Shutdown: exit / watchdog                                               *)
(***************************************************************************)

\* The window is closed: self.gui.open() returns and __init__ calls self.exit().
\* exit: assert current_thread() is main_thread() holds here; the watchdog
\* thread is created and started.
ExitStart ==
    /\ Running /\ mpc = "mainloop"
    /\ gui_shown' = FALSE
    /\ wpc' = "sleep"
    /\ ji' = 1
    /\ mpc' = "x_join"
    /\ UNCHANGED <<runnerVars, gui_state, tick_pending, prune_tmp, tick_done0, after_ready, stage,
                   proc, is_alive, wd_polls, saves, flag_set_poll, pushed_at_join, featVars>>

\* A plausible slip: the loop goes over the units without waiting for them.
ExitJoinNoWait ==
    /\ Running /\ mpc = "x_join"
    /\ mpc' = "x_notalive"
    /\ UNCHANGED <<runnerVars, guiVars, exitVars, featVars>>

\* exit: for thread in self.threads: thread.join()
ExitJoin ==
    /\ Running /\ mpc = "x_join"
    /\ IF ji > Len(threads)
         THEN mpc' = "x_notalive" /\ ji' = ji
         ELSE /\ Terminated(threads[ji])
              /\ ji' = ji + 1
              /\ mpc' = mpc
    /\ UNCHANGED <<runnerVars, guiVars, proc, is_alive, wpc, wd_polls, saves,
                   flag_set_poll, pushed_at_join, featVars>>

\* exit: self.is_alive = False
ExitNotAlive ==
    /\ Running /\ mpc = "x_notalive"
    /\ is_alive' = FALSE
    /\ flag_set_poll' = wd_polls
    /\ pushed_at_join' = SeqToSet(error_queue) \cup SeqToSet(shown)
    /\ mpc' = "x_wdjoin"
    /\ UNCHANGED <<runnerVars, guiVars, proc, wpc, wd_polls, ji, saves, featVars>>

\* exit: watchdog_thread.join()
ExitJoinWatchdog ==
    /\ Running /\ mpc = "x_wdjoin"
    /\ wpc = "returned"
    /\ mpc' = "x_save"
    /\ UNCHANGED <<runnerVars, guiVars, exitVars, featVars>>

\* A plausible slip: exit() goes on without saving the configuration.
ExitSaveSkipped ==
    /\ Running /\ mpc = "x_save"
    /\ mpc' = "x_drain"
    /\ UNCHANGED <<runnerVars, guiVars, exitVars, featVars>>

\* exit: Config.Config.save()
ExitSave ==
    /\ Running /\ mpc = "x_save"
    /\ saves' = saves + 1
    /\ mpc' = "x_drain"
    /\ UNCHANGED <<runnerVars, guiVars, proc, is_alive, wpc, wd_polls, ji,
                   flag_set_poll, pushed_at_join, featVars>>

\* A plausible slip: exit() terminates without the final drain.
ExitDrainSkipped ==
    /\ Running /\ mpc = "x_drain"
    /\ mpc' = "x_terminate"
    /\ UNCHANGED <<runnerVars, guiVars, exitVars, featVars>>

\* exit: while True: try: self.report_thread_error() except Empty: break
ExitDrain ==
    /\ Running /\ mpc = "x_drain"
    /\ IF error_queue = <<>>
         THEN /\ mpc' = "x_terminate"
              /\ UNCHANGED <<error_queue, shown, tick_reports>>
         ELSE ReportThreadError("x_dialog")
    /\ UNCHANGED <<threads, kind, tst, escaped, guiVars, exitVars, featVars>>

\* The user dismisses the error dialog shown by exit's drain loop.
ExitDialogDismiss ==
    /\ Running /\ mpc = "x_dialog"
    /\ after_ready' = IF gui_shown THEN after_ready + 1 ELSE after_ready
    /\ mpc' = "x_drain"
    /\ UNCHANGED <<runnerVars, gui_state, gui_shown, tick_pending, prune_tmp, tick_done0, stage,
                   exitVars, featVars>>

\* exit: os._exit(os.EX_OK)
ExitTerminate ==
    /\ Running /\ mpc = "x_terminate"
    /\ proc' = "exited"
    /\ UNCHANGED <<mpc, runnerVars, guiVars, is_alive, wpc, wd_polls, ji, saves,
                   flag_set_poll, pushed_at_join, featVars>>

\* watchdog: time.sleep(0.1)
WatchdogSleep ==
    /\ Running /\ wpc = "sleep"
    /\ wd_polls' = wd_polls + 1
    /\ wpc' = "chk_alive"
    /\ UNCHANGED <<mpc, runnerVars, guiVars, proc, is_alive, ji, saves,
                   flag_set_poll, pushed_at_join, featVars>>

\* A plausible slip: the watchdog never looks at the flag.
WatchdogSeesExitIgnored == FALSE

\* watchdog: if not self.is_alive: return
WatchdogSeesExit == ~is_alive

WatchdogCheckAlive ==
    /\ Running /\ wpc = "chk_alive"
    /\ wpc' = IF WatchdogSeesExit THEN "returned" ELSE "chk_time"
    /\ UNCHANGED <<mpc, runnerVars, guiVars, proc, is_alive, wd_polls, ji, saves,
                   flag_set_poll, pushed_at_join, featVars>>

\* watchdog: if time.time() > timeout: break
WatchdogExpired == wd_polls > GracePolls

\* watchdog: the deadline test, then os._exit(os.EX_OK) after the loop
WatchdogCheckTime ==
    /\ Running /\ wpc = "chk_time"
    /\ IF WatchdogExpired
         THEN proc' = "killed" /\ wpc' = "kill"
         ELSE proc' = proc /\ wpc' = "sleep"
    /\ UNCHANGED <<mpc, runnerVars, guiVars, is_alive, wd_polls, ji, saves,
                   flag_set_poll, pushed_at_join, featVars>>

Tick == TickFire \/ TickReschedule \/ TickPrune \/ TickReport \/ TickDialogDismiss

Exit == ExitStart \/ ExitJoin \/ ExitNotAlive \/ ExitJoinWatchdog \/ ExitSave
            \/ ExitDrain \/ ExitTerminate

Watchdog == WatchdogSleep \/ WatchdogCheckAlive \/ WatchdogCheckTime

Next ==
    \/ \E t \in Tid : Dispatch(t)
    \/ \E t \in Tid : CallbackReturns(t)
    \/ \E t \in Tid : CallbackRaises(t)
    \/ \E t \in Tid : CallbackHangs(t)
    \/ \E t \in Tid : WrapErrors(t)
    \/ TickFire \/ TickReschedule \/ TickPrune \/ TickReport \/ TickDialogDismiss
    \/ DeliverReady
    \/ ToggleWindow
    \/ ExitStart \/ ExitJoin \/ ExitNotAlive \/ ExitJoinWatchdog \/ ExitSave
    \/ ExitDrain \/ ExitDialogDismiss \/ ExitTerminate
    \/ WatchdogSleep \/ WatchdogCheckAlive \/ WatchdogCheckTime

Spec == Init /\ [][Next]_vars

\* The threads the interpreter schedules keep running: the control thread inside
\* exit(), the watchdog, and a unit inside its except handler. Nothing obliges the
\* user to dismiss a dialog or a callback to come back.
FairSpec ==
    /\ Spec
    /\ WF_vars(Exit)
    /\ WF_vars(Watchdog)
    /\ \A t \in Tid : WF_vars(WrapErrors(t))

\* run_as_thread calls of both kinds with the drain tick running
NextSync ==
    \/ RunAsThreadCall
    \/ SyncCallbackEnds
    \/ \E t \in Tid : CallbackReturns(t)
    \/ \E t \in Tid : CallbackRaises(t)
    \/ \E t \in Tid : CallbackHangs(t)
    \/ \E t \in Tid : WrapErrors(t)
    \/ TickFire \/ TickReschedule \/ TickPrune \/ TickReport \/ TickDialogDismiss

SpecSync == Init /\ [][NextSync]_vars

(***************************************************************************)
(* Launch sequence: launch                                                 *)
(***************************************************************************)

\* Hook settings that differ in behaviour: each hook is off, on, or on and waited.
HookCfgs == {<<FALSE, FALSE>>, <<TRUE, FALSE>>, <<TRUE, TRUE>>}

CfgSet ==
    {[pre_on |-> pre[1], pre_wait |-> pre[2], post_on |-> post[1],
      post_wait |-> post[2], auto_close |-> ac, auto_update |-> FALSE] :
        pre \in HookCfgs, post \in HookCfgs, ac \in BOOLEAN}

InitLaunch == InitCore /\ cfg \in CfgSet

\* launch, the except clause: raise Exception(f'{Config.Launcher.active_importer}
\* Loading Failed:...') from e: the importer the new error names
LoadingFailed == active_importer

LaunchUnit(t, at) == Running /\ kind[t] = "launch" /\ tst[t] = "running" /\ lpc[t] = at

\* Subscription of Events.Application.Launch: self.run_as_thread(self.launch)
LaunchEvent(t) ==
    /\ Running /\ mpc = "mainloop"
    /\ RunAsThread(t, "launch")
    /\ UNCHANGED <<verVars, updVars, impVars>>
    /\ lpc' = [lpc EXCEPT ![t] = "guard"]
    /\ UNCHANGED <<mpc, error_queue, shown, tick_reports, escaped, guiVars, exitVars,
                   launching_game, restVars, lrec, cmd, close_fired>>

\* launch: if self.launching_game: return
LaunchGuard(t) ==
    /\ LaunchUnit(t, "guard")
    /\ UNCHANGED <<verVars, updVars, impVars>>
    /\ IF launching_game
         THEN tst' = [tst EXCEPT ![t] = "returned"] /\ lpc' = [lpc EXCEPT ![t] = "done"]
         ELSE tst' = tst /\ lpc' = [lpc EXCEPT ![t] = "set"]
    /\ UNCHANGED <<mpc, threads, error_queue, shown, tick_reports, kind, escaped, guiVars,
                   exitVars, launching_game, restVars, lrec, cmd, close_fired>>

\* launch: self.launching_game = True
LaunchSetFlag(t) ==
    /\ LaunchUnit(t, "set")
    /\ UNCHANGED <<verVars, updVars, impVars>>
    /\ launching_game' = TRUE
    /\ lrec' = [lrec EXCEPT ![t].passed = TRUE]
    /\ lpc' = [lpc EXCEPT ![t] = "busy"]
    /\ UNCHANGED <<mpc, runnerVars, guiVars, exitVars, restVars, cmd, close_fired>>

\* launch: Events.Fire(Events.Application.Busy()); LauncherFrame's subscriber
\* fires StageUpdate(Stage.Busy) on the calling thread.
LaunchBusy(t) ==
    /\ LaunchUnit(t, "busy")
    /\ UNCHANGED <<verVars, updVars, impVars>>
    /\ stage' = "Busy"
    /\ lrec' = [lrec EXCEPT ![t].busy = TRUE]
    /\ lpc' = [lpc EXCEPT ![t] = "pre"]
    /\ UNCHANGED <<mpc, runnerVars, gui_state, gui_shown, tick_pending, prune_tmp,
                   tick_done0, after_ready, exitVars, launching_game, restVars, cmd, close_fired>>

\* launch, step 1: if run_pre_launch_enabled and run_pre_launch != '':
\* Fire(RunPreLaunch); subprocess.Popen(cmd, shell=True), which may raise.
LaunchPre(t) ==
    /\ LaunchUnit(t, "pre")
    /\ UNCHANGED <<verVars, updVars, impVars>>
    /\ IF cfg.pre_on
         THEN \/ /\ cmd' = [cmd EXCEPT ![t].pre = "running"]
                 /\ lpc' = [lpc EXCEPT ![t] = IF cfg.pre_wait THEN "pre_wait" ELSE "start"]
                 /\ lrec' = lrec
              \/ /\ lrec' = [lrec EXCEPT ![t].exc = TRUE, ![t].name = LoadingFailed]
                 /\ lpc' = [lpc EXCEPT ![t] = "finally"]
                 /\ cmd' = cmd
         ELSE /\ lpc' = [lpc EXCEPT ![t] = "start"]
              /\ UNCHANGED <<cmd, lrec>>
    /\ UNCHANGED <<mpc, runnerVars, guiVars, exitVars, launching_game, restVars, close_fired>>

\* A plausible slip: the launch goes on without waiting for the command.
PreLaunchNotWaited(t) == TRUE

\* process.wait() returns once the pre-launch command has exited; it returns the
\* exit code, which launch() does not look at
PreLaunchWaited(t) == cmd[t].pre \in {"exited", "failed"}

\* launch, step 1: if run_pre_launch_wait: process.wait() (any exit code)
LaunchPreWait(t) ==
    /\ LaunchUnit(t, "pre_wait")
    /\ UNCHANGED <<verVars, updVars, impVars>>
    /\ PreLaunchWaited(t)
    /\ lpc' = [lpc EXCEPT ![t] = "start"]
    /\ UNCHANGED <<mpc, runnerVars, guiVars, exitVars, launching_game, restVars, lrec, cmd,
                   close_fired>>

\* A shell command that launch() waits for exits, with exit code zero ("exited")
\* or non-zero ("failed"). (The exit of a command that is not waited for is
\* never observed by the launcher and is left out.)
CmdExits(t) ==
    /\ Running
    /\ UNCHANGED <<verVars, updVars, impVars>>
    /\ \/ /\ lpc[t] = "pre_wait" /\ cmd[t].pre = "running"
          /\ \E r \in {"exited", "failed"} : cmd' = [cmd EXCEPT ![t].pre = r]
       \/ /\ lpc[t] = "post_wait" /\ cmd[t].post = "running"
          /\ \E r \in {"exited", "failed"} : cmd' = [cmd EXCEPT ![t].post = r]
    /\ UNCHANGED <<mpc, runnerVars, guiVars, exitVars, launching_game, restVars, lpc, lrec,
                   close_fired>>

\* launch, step 2: Events.Fire(Events.ModelImporter.StartGame()) is entered
LaunchStartGame(t) ==
    /\ LaunchUnit(t, "start")
    /\ UNCHANGED <<verVars, updVars, impVars>>
    /\ lrec' = [lrec EXCEPT ![t].game = "running"]
    /\ lpc' = [lpc EXCEPT ![t] = "starting"]
    /\ UNCHANGED <<mpc, runnerVars, guiVars, exitVars, launching_game, restVars, cmd,
                   close_fired>>

\* launch, step 2: the importer's StartGame handler returns or raises
LaunchStartGameEnds(t) ==
    /\ LaunchUnit(t, "starting")
    /\ UNCHANGED <<verVars, updVars, impVars>>
    /\ \/ /\ lrec' = [lrec EXCEPT ![t].game = "returned"]
          /\ lpc' = [lpc EXCEPT ![t] = "post"]
       \/ /\ lrec' = [lrec EXCEPT ![t].game = "raised", ![t].exc = TRUE,
                                 ![t].name = LoadingFailed]
          /\ lpc' = [lpc EXCEPT ![t] = "finally"]
    /\ UNCHANGED <<mpc, runnerVars, guiVars, exitVars, launching_game, restVars, cmd,
                   close_fired>>

\* launch, step 3: if run_post_load_enabled and run_post_load != '':
\* Fire(RunPostLoad); subprocess.Popen(cmd, shell=True), which may raise.
LaunchPost(t) ==
    /\ LaunchUnit(t, "post")
    /\ UNCHANGED <<verVars, updVars, impVars>>
    /\ IF cfg.post_on
         THEN \/ /\ cmd' = [cmd EXCEPT ![t].post = "running"]
                 /\ lpc' = [lpc EXCEPT ![t] = IF cfg.post_wait THEN "post_wait" ELSE "finally"]
                 /\ lrec' = lrec
              \/ /\ lrec' = [lrec EXCEPT ![t].exc = TRUE, ![t].name = LoadingFailed]
                 /\ lpc' = [lpc EXCEPT ![t] = "finally"]
                 /\ cmd' = cmd
         ELSE /\ lpc' = [lpc EXCEPT ![t] = "finally"]
              /\ UNCHANGED <<cmd, lrec>>
    /\ UNCHANGED <<mpc, runnerVars, guiVars, exitVars, launching_game, restVars, close_fired>>

\* launch, step 3: if run_post_load_wait: process.wait()
LaunchPostWait(t) ==
    /\ LaunchUnit(t, "post_wait")
    /\ UNCHANGED <<verVars, updVars, impVars>>
    /\ cmd[t].post \in {"exited", "failed"}
    /\ lpc' = [lpc EXCEPT ![t] = "finally"]
    /\ UNCHANGED <<mpc, runnerVars, guiVars, exitVars, launching_game, restVars, lrec, cmd,
                   close_fired>>

\* A plausible slip: Ready is scheduled only after a successful launch.
ReadyAfterLaunchOnSuccess(t) == ~cfg.auto_close /\ ~lrec[t].exc

\* launch, finally: if not Config.Launcher.auto_close: gui.after(100, Fire, Ready())
ReadyAfterLaunch(t) == ~cfg.auto_close

\* launch, the finally block: self.launching_game = False, the Ready callback;
\* then the wrapped exception, if any, leaves launch() for wrap_errors.
LaunchFinally(t) ==
    /\ LaunchUnit(t, "finally")
    /\ UNCHANGED <<verVars, updVars, impVars>>
    /\ launching_game' = FALSE
    /\ after_ready' = IF ReadyAfterLaunch(t) THEN after_ready + 1 ELSE after_ready
    /\ lrec' = [lrec EXCEPT ![t].cleared = TRUE, ![t].ready = ReadyAfterLaunch(t)]
    /\ IF lrec[t].exc
         THEN tst' = [tst EXCEPT ![t] = "raised"] /\ lpc' = [lpc EXCEPT ![t] = "done"]
         ELSE tst' = tst /\ lpc' = [lpc EXCEPT ![t] = "close"]
    /\ UNCHANGED <<mpc, threads, error_queue, shown, tick_reports, kind, escaped,
                   gui_state, gui_shown, tick_pending, prune_tmp, tick_done0, stage,
                   exitVars, restVars, cmd, close_fired>>

\* launch, after the try statement: if Config.Launcher.auto_close:
\* Events.Fire(Events.Application.Close(delay=1000)); launch() returns.
LaunchClose(t) ==
    /\ LaunchUnit(t, "close")
    /\ UNCHANGED <<verVars, updVars, impVars>>
    /\ close_fired' = IF cfg.auto_close THEN close_fired + 1 ELSE close_fired
    /\ lrec' = [lrec EXCEPT ![t].close = cfg.auto_close]
    /\ tst' = [tst EXCEPT ![t] = "returned"]
    /\ lpc' = [lpc EXCEPT ![t] = "done"]
    /\ UNCHANGED <<mpc, threads, error_queue, shown, tick_reports, kind, escaped, guiVars,
                   exitVars, launching_game, restVars, cmd>>

NextLaunch ==
    \/ \E t \in Tid : LaunchEvent(t)
    \/ \E t \in Tid : LaunchGuard(t)
    \/ \E t \in Tid : LaunchSetFlag(t)
    \/ \E t \in Tid : LaunchBusy(t)
    \/ \E t \in Tid : LaunchPre(t)
    \/ \E t \in Tid : LaunchPreWait(t)
    \/ \E t \in Tid : CmdExits(t)
    \/ \E t \in Tid : LaunchStartGame(t)
    \/ \E t \in Tid : LaunchStartGameEnds(t)
    \/ \E t \in Tid : LaunchPost(t)
    \/ \E t \in Tid : LaunchPostWait(t)
    \/ \E t \in Tid : LaunchFinally(t)
    \/ \E t \in Tid : LaunchClose(t)
    \/ \E t \in Tid : WrapErrors(t)
    \/ DeliverReady

SpecLaunch == InitLaunch /\ [][NextLaunch]_vars

(***************************************************************************)
(* Package manager (core/package_manager.py is not part of the sources     *)
(* at hand: these definitions follow sections 4.1 and 4.2 of the           *)
(* specification)                                                          *)
(***************************************************************************)

\* update_available(): some package has a latest_version that is non-empty,
\* differs from installed_version and differs from skipped_version
UpdateAvailable ==
    \E p \in Pkgs :
        latest[p] # "" /\ latest[p] # installed[p] /\ latest[p] # skipped[p]

\* update_packages: the package needs a download and install
NeedsInstall(p, reinstall) ==
    latest[p] # "" /\ (installed[p] # latest[p] \/ reinstall)

\* A plausible slip: the transition is entered without looking at the one in flight.
InstallFreeAlways(p) == TRUE

\* Package lifecycle: Installing/Updating are exclusive per package instance
InstallFree(p) == owner[p] = 0

\* Latest versions a version query may report: nothing new, or release 1.3
LatestChoices == {latest, [p \in Pkgs |-> "1.3"]}

UpdUnit(t, at) == Running /\ tst[t] = "running" /\ upc[t] = at

\* The call record of update_packages(no_install, no_check, reinstall) with the
\* caller's continuations for its return and for an error it raises
Call(ni, nc, re, ret, exc) ==
    [no_install |-> ni, no_check |-> nc, reinstall |-> re, p |-> 1,
     ret |-> ret, exc |-> exc]

\* The unit's callback returns (to == "return"), raises (to == "raise") or goes on
Continue(t, to) ==
    /\ upc' = [upc EXCEPT ![t] = IF to \in {"return", "raise"} THEN "done" ELSE to]
    /\ tst' = [tst EXCEPT ![t] = CASE to = "return" -> "returned"
                                   [] to = "raise" -> "raised"
                                   [] OTHER -> tst[t]]

\* update_packages: unless no_check, query the latest versions; a failed query
\* is reported to the caller and leaves the cached versions as they were.
\* With no_install the call goes straight on to the notification.
UpCheck(t) ==
    /\ UpdUnit(t, "up_check")
    /\ LET next == IF ucall[t].no_install THEN "up_notify" ELSE "up_install" IN
        IF ucall[t].no_check
          THEN /\ upc' = [upc EXCEPT ![t] = next]
               /\ UNCHANGED <<latest, tst, ucall>>
          ELSE \/ /\ \E f \in LatestChoices : latest' = f
                  /\ upc' = [upc EXCEPT ![t] = next]
                  /\ UNCHANGED <<tst, ucall>>
               \/ /\ latest' = latest
                  /\ Continue(t, ucall[t].exc)
                  /\ ucall' = [ucall EXCEPT ![t] = NoCall]
    /\ UNCHANGED <<mpc, threads, error_queue, shown, tick_reports, kind, escaped, guiVars,
                   exitVars, launchVars, installed, skipped, notif, owner,
                   args_update, warnings, infos, impVars>>

\* update_packages (no_install unset): the next package that is not at its latest
\* version enters its install transition, or is passed over while another
\* transition of that package is in flight
UpInstall(t) ==
    /\ UpdUnit(t, "up_install")
    /\ LET p == ucall[t].p IN
        IF p > Len(PkgOrder)
          THEN /\ upc' = [upc EXCEPT ![t] = "up_notify"]
               /\ UNCHANGED <<owner, ucall>>
          ELSE IF NeedsInstall(PkgOrder[p], ucall[t].reinstall) /\ InstallFree(PkgOrder[p])
                 THEN /\ owner' = [owner EXCEPT ![PkgOrder[p]] = t]
                      /\ upc' = [upc EXCEPT ![t] = "up_installing"]
                      /\ ucall' = ucall
                 ELSE /\ ucall' = [ucall EXCEPT ![t].p = p + 1]
                      /\ UNCHANGED <<owner, upc>>
    /\ UNCHANGED <<mpc, runnerVars, guiVars, exitVars, launchVars, verVars,
                   args_update, warnings, infos, impVars>>

\* update_packages: the download and install of one package ends: on success
\* installed_version becomes the latest version, on failure it stays
UpInstallEnds(t) ==
    /\ UpdUnit(t, "up_installing")
    /\ LET p == PkgOrder[ucall[t].p] IN
        /\ \/ installed' = [installed EXCEPT ![p] = latest[p]]
           \/ installed' = installed
        /\ owner' = [owner EXCEPT ![p] = 0]
    /\ ucall' = [ucall EXCEPT ![t].p = @ + 1]
    /\ upc' = [upc EXCEPT ![t] = "up_install"]
    /\ UNCHANGED <<mpc, runnerVars, guiVars, exitVars, launchVars, latest, skipped, notif,
                   args_update, warnings, infos, impVars>>

\* update_packages: broadcast a fresh VersionNotification and return
UpNotify(t) ==
    /\ UpdUnit(t, "up_notify")
    /\ notif' = Snapshot(installed, latest, skipped)
    /\ Continue(t, ucall[t].ret)
    /\ ucall' = [ucall EXCEPT ![t] = NoCall]
    /\ UNCHANGED <<mpc, threads, error_queue, shown, tick_reports, kind, escaped, guiVars,
                   exitVars, launchVars, installed, latest, skipped, owner,
                   args_update, warnings, infos, impVars>>

\* skip_latest_updates(): skipped_version = latest_version for every package
\* with a pending update
\* A plausible slip: only the first package is looked at.
SkipLatestOfOne ==
    [p \in Pkgs |-> IF p = PkgOrder[1] /\ latest[p] # "" /\ latest[p] # installed[p]
                      THEN latest[p] ELSE skipped[p]]

SkipLatestUpdates ==
    [p \in Pkgs |-> IF latest[p] # "" /\ latest[p] # installed[p]
                      THEN latest[p] ELSE skipped[p]]

(***************************************************************************)
(* Entry points of update_packages in app.py                               *)
(***************************************************************************)

\* Subscription of Events.Application.Update:
\* self.run_as_thread(self.package_manager.update_packages, **event.__dict__),
\* for an event that asks for an install, with or without reinstall (an event
\* with no_install makes the call that BackgroundCheck makes)
UpdateEvent(t) ==
    /\ Running /\ mpc = "mainloop"
    /\ RunAsThread(t, "update")
    /\ \E re \in BOOLEAN :
          ucall' = [ucall EXCEPT ![t] = Call(FALSE, FALSE, re, "return", "raise")]
    /\ upc' = [upc EXCEPT ![t] = "up_check"]
    /\ UNCHANGED <<mpc, error_queue, shown, tick_reports, escaped, guiVars, exitVars,
                   launchVars, verVars, owner, args_update, warnings, infos, impVars>>

\* Subscription of Events.Application.CheckForUpdates:
\* self.run_as_thread(self.check_for_updates); check_for_updates begins with
\* update_packages(no_install=True, force=force)
CheckForUpdatesEvent(t) ==
    /\ Running /\ mpc = "mainloop"
    /\ RunAsThread(t, "check")
    /\ ucall' = [ucall EXCEPT ![t] = Call(TRUE, FALSE, FALSE, "cfu_avail", "cfu_warn")]
    /\ upc' = [upc EXCEPT ![t] = "up_check"]
    /\ UNCHANGED <<mpc, error_queue, shown, tick_reports, escaped, guiVars, exitVars,
                   launchVars, verVars, owner, args_update, warnings, infos, impVars>>

\* check_for_updates: except Exception: Events.Fire(ShowWarning(...))
CfuWarn(t) ==
    /\ UpdUnit(t, "cfu_warn") /\ kind[t] = "check"
    /\ warnings' = warnings \cup {"check"}
    /\ upc' = [upc EXCEPT ![t] = "cfu_avail"]
    /\ UNCHANGED <<mpc, runnerVars, guiVars, exitVars, launchVars, verVars, owner, ucall,
                   args_update, infos, impVars>>

\* check_for_updates: if update_available(): update_scheduled() is entered,
\* else Events.Fire(ShowInfo('No updates available!'))
CfuAvailable(t) ==
    /\ UpdUnit(t, "cfu_avail") /\ kind[t] = "check"
    /\ IF UpdateAvailable
         THEN /\ upc' = [upc EXCEPT ![t] = "us_avail"]
              /\ UNCHANGED <<tst, infos>>
         ELSE /\ infos' = infos \cup {"check"}
              /\ Continue(t, "return")
    /\ UNCHANGED <<mpc, threads, error_queue, shown, tick_reports, kind, escaped, guiVars,
                   exitVars, launchVars, verVars, owner, ucall, args_update, warnings,
                   impVars>>

\* A plausible slip: the list leaves out the test of the skipped version.
PendingUpdatesSkipIgnored ==
    {p \in Pkgs :
        /\ notif[p].installed_version # notif[p].latest_version
        /\ notif[p].latest_version # ""}

\* Packages update_scheduled lists from the last version notification
PendingUpdates ==
    {p \in Pkgs :
        /\ notif[p].latest_version # notif[p].skipped_version
        /\ notif[p].installed_version # notif[p].latest_version
        /\ notif[p].latest_version # ""}

\* update_scheduled: if not update_available(): return False
UsAvailable(t) ==
    /\ UpdUnit(t, "us_avail")
    /\ IF UpdateAvailable
         THEN upc' = [upc EXCEPT ![t] = "us_list"] /\ tst' = tst
         ELSE Continue(t, "return")
    /\ UNCHANGED <<mpc, threads, error_queue, shown, tick_reports, kind, escaped, guiVars,
                   exitVars, launchVars, verVars, owner, ucall, args_update, warnings,
                   infos, impVars>>

\* update_scheduled: build the pending list from get_version_notification();
\* return False when it is empty, else show the modal Update/Skip dialogue
UsList(t) ==
    /\ UpdUnit(t, "us_list")
    /\ IF PendingUpdates = {}
         THEN Continue(t, "return")
         ELSE upc' = [upc EXCEPT ![t] = "us_dialog"] /\ tst' = tst
    /\ UNCHANGED <<mpc, threads, error_queue, shown, tick_reports, kind, escaped, guiVars,
                   exitVars, launchVars, verVars, owner, ucall, args_update, warnings,
                   infos, impVars>>

\* What show_messagebox returns for the update dialogue: True for the Update
\* button, False for the Skip button, None when the dialogue is closed
Answers == {"update", "skip", "close"}

\* A plausible slip: every answer but Update marks the updates as skipped.
MarksSkippedUnlessUpdate(ans) == ans # "update"

\* if not user_requested_update and user_requested_update is not None
MarksSkipped(ans) == ans # "update" /\ ans # "close"

\* return bool(user_requested_update)
UserRequestedUpdate(ans) == ans = "update"

\* update_scheduled: the user answers Update (True), Skip (False) or closes the
\* dialogue (None); Skip calls skip_latest_updates(). check_for_updates then
\* calls update_packages(no_check=True, force=force) when the answer was Update.
UsAnswer(t) ==
    /\ UpdUnit(t, "us_dialog")
    /\ \E ans \in Answers :
          /\ skipped' = IF MarksSkipped(ans) THEN SkipLatestUpdates ELSE skipped
          /\ IF UserRequestedUpdate(ans)
               THEN /\ ucall' = [ucall EXCEPT ![t] = Call(FALSE, TRUE, FALSE, "return", "raise")]
                    /\ upc' = [upc EXCEPT ![t] = "up_check"]
                    /\ tst' = tst
               ELSE /\ ucall' = ucall
                    /\ Continue(t, "return")
    /\ UNCHANGED <<mpc, threads, error_queue, shown, tick_reports, kind, escaped, guiVars,
                   exitVars, launchVars, installed, latest, notif, owner, args_update,
                   warnings, infos, impVars>>

\* __init__: self.gui.after(100, self.run_as_thread, self.auto_update), once;
\* auto_update begins with update_packages(no_install=True, force=self.args.update)
AutoUpdateStart(t) ==
    /\ Running /\ mpc = "mainloop"
    /\ \A u \in Tid : kind[u] # "auto"
    /\ RunAsThread(t, "auto")
    /\ ucall' = [ucall EXCEPT ![t] = Call(TRUE, FALSE, FALSE, "au_avail", "au_warn")]
    /\ upc' = [upc EXCEPT ![t] = "up_check"]
    /\ UNCHANGED <<mpc, error_queue, shown, tick_reports, escaped, guiVars, exitVars,
                   launchVars, verVars, owner, args_update, warnings, infos, impVars>>

\* auto_update: except Exception: if self.args.update: Events.Fire(ShowWarning(...))
AuWarn(t) ==
    /\ UpdUnit(t, "au_warn") /\ kind[t] = "auto"
    /\ warnings' = IF args_update THEN warnings \cup {"auto"} ELSE warnings
    /\ upc' = [upc EXCEPT ![t] = "au_avail"]
    /\ UNCHANGED <<mpc, runnerVars, guiVars, exitVars, launchVars, verVars, owner, ucall,
                   args_update, infos, impVars>>

\* auto_update: return if not update_available(), or if neither
\* Config.Launcher.auto_update nor self.args.update is set
AuAvailable(t) ==
    /\ UpdUnit(t, "au_avail") /\ kind[t] = "auto"
    /\ IF UpdateAvailable /\ (cfg.auto_update \/ args_update)
         THEN upc' = [upc EXCEPT ![t] = "au_launching"] /\ tst' = tst
         ELSE Continue(t, "return")
    /\ UNCHANGED <<mpc, threads, error_queue, shown, tick_reports, kind, escaped, guiVars,
                   exitVars, launchVars, verVars, owner, ucall, args_update, warnings,
                   infos, impVars>>

\* auto_update: if self.launching_game: return; else
\* update_packages(no_check=True, force=self.args.update, silent=False) is entered
AuLaunching(t) ==
    /\ UpdUnit(t, "au_launching") /\ kind[t] = "auto"
    /\ IF launching_game
         THEN Continue(t, "return") /\ ucall' = ucall
         ELSE /\ ucall' = [ucall EXCEPT ![t] = Call(FALSE, TRUE, FALSE, "au_clear", "raise")]
              /\ upc' = [upc EXCEPT ![t] = "up_check"]
              /\ tst' = tst
    /\ UNCHANGED <<mpc, threads, error_queue, shown, tick_reports, kind, escaped, guiVars,
                   exitVars, launchVars, verVars, owner, args_update, warnings, infos,
                   impVars>>

\* auto_update: self.args.update = False
AuClear(t) ==
    /\ UpdUnit(t, "au_clear") /\ kind[t] = "auto"
    /\ args_update' = FALSE
    /\ Continue(t, "return")
    /\ UNCHANGED <<mpc, threads, error_queue, shown, tick_reports, kind, escaped, guiVars,
                   exitVars, launchVars, verVars, owner, ucall, warnings, infos, impVars>>

(***************************************************************************)
(* load_importer                                                           *)
(***************************************************************************)

\* Subscription of Events.Application.LoadImporter: self.run_as_thread(
\* self.load_importer, importer_id=event.importer_id, reload=event.reload)
LoadImporterEvent(t) ==
    /\ Running /\ mpc = "mainloop"
    /\ RunAsThread(t, "load")
    /\ \E id \in Importers, rl \in BOOLEAN :
          larg' = [larg EXCEPT ![t] = [NoLoad EXCEPT !.id = id, !.reload = rl]]
    /\ upc' = [upc EXCEPT ![t] = "li_check"]
    /\ UNCHANGED <<mpc, error_queue, shown, tick_reports, escaped, guiVars, exitVars,
                   launchVars, verVars, owner, ucall, args_update, warnings, infos,
                   active_importer, config_active, loaded>>

\* load_importer: if importer_id == Config.Launcher.active_importer and not
\* reload: return (Config.Active exists once __init__ has loaded an importer)
LiCheck(t) ==
    /\ UpdUnit(t, "li_check") /\ kind[t] = "load"
    /\ IF larg[t].id = active_importer /\ ~larg[t].reload
         THEN Continue(t, "return")
         ELSE upc' = [upc EXCEPT ![t] = "li_unload"] /\ tst' = tst
    /\ larg' = [larg EXCEPT ![t].old = active_importer]
    /\ UNCHANGED <<mpc, threads, error_queue, shown, tick_reports, kind, escaped, guiVars,
                   exitVars, launchVars, verVars, owner, ucall, args_update, warnings,
                   infos, active_importer, config_active, loaded>>

\* load_importer: self.package_manager.unload_package(Config.Launcher.active_importer)
LiUnload(t) ==
    /\ UpdUnit(t, "li_unload") /\ kind[t] = "load"
    /\ loaded' = loaded \ {active_importer}
    /\ larg' = [larg EXCEPT ![t].calls = Append(@, <<"unload", active_importer>>)]
    /\ upc' = [upc EXCEPT ![t] = "li_set"]
    /\ UNCHANGED <<mpc, runnerVars, guiVars, exitVars, launchVars, verVars, owner, ucall,
                   args_update, warnings, infos, active_importer, config_active>>

\* load_importer: Config.Launcher.active_importer = importer_id
LiSetActive(t) ==
    /\ UpdUnit(t, "li_set") /\ kind[t] = "load"
    /\ active_importer' = larg[t].id
    /\ upc' = [upc EXCEPT ![t] = "li_cfg"]
    /\ UNCHANGED <<mpc, runnerVars, guiVars, exitVars, launchVars, verVars, owner, ucall,
                   args_update, warnings, infos, config_active, loaded, larg>>

\* load_importer: Config.Active = getattr(Config.Importers, importer_id)
LiSetConfig(t) ==
    /\ UpdUnit(t, "li_cfg") /\ kind[t] = "load"
    /\ config_active' = larg[t].id
    /\ upc' = [upc EXCEPT ![t] = "li_load"]
    /\ UNCHANGED <<mpc, runnerVars, guiVars, exitVars, launchVars, verVars, owner, ucall,
                   args_update, warnings, infos, active_importer, loaded, larg>>

\* load_importer: self.package_manager.load_package(importer_id)
LiLoad(t) ==
    /\ UpdUnit(t, "li_load") /\ kind[t] = "load"
    /\ loaded' = loaded \cup {larg[t].id}
    /\ larg' = [larg EXCEPT ![t].calls = Append(@, <<"load", larg[t].id>>)]
    /\ upc' = [upc EXCEPT ![t] = "li_notify"]
    /\ UNCHANGED <<mpc, runnerVars, guiVars, exitVars, launchVars, verVars, owner, ucall,
                   args_update, warnings, infos, active_importer, config_active>>

\* A plausible slip: load_importer goes on without the version notification.
LiNotifySkipped(t) ==
    /\ UpdUnit(t, "li_notify") /\ kind[t] = "load"
    /\ upc' = [upc EXCEPT ![t] = "li_spawn"]
    /\ UNCHANGED <<mpc, runnerVars, guiVars, exitVars, launchVars, verVars, owner, ucall,
                   args_update, warnings, infos, impVars>>

\* load_importer: notify_package_versions(); validate_config(); Fire(ConfigUpdate())
LiNotify(t) ==
    /\ UpdUnit(t, "li_notify") /\ kind[t] = "load"
    /\ notif' = Snapshot(installed, latest, skipped)
    /\ larg' = [larg EXCEPT ![t].calls = Append(@, <<"notify", active_importer>>)]
    /\ upc' = [upc EXCEPT ![t] = "li_spawn"]
    /\ UNCHANGED <<mpc, runnerVars, guiVars, exitVars, launchVars, installed, latest,
                   skipped, owner, ucall, args_update, warnings, infos, active_importer,
                   config_active, loaded>>

\* load_importer: if update: run_as_thread(update_packages, no_install=True,
\* silent=True), on the background thread: the Thread is created and appended
\* to self.threads; it is not alive before start()
LiSpawn(t, u) ==
    /\ UpdUnit(t, "li_spawn") /\ kind[t] = "load"
    /\ tst[u] = "new"
    /\ \A v \in Tid : v < u => tst[v] # "new"
    /\ threads' = Append(threads, u)
    /\ kind' = [kind EXCEPT ![u] = "bgcheck"]
    /\ tst' = [tst EXCEPT ![u] = "created"]
    /\ upc' = [upc EXCEPT ![t] = "li_start"]
    /\ UNCHANGED <<mpc, error_queue, shown, tick_reports, escaped, guiVars, exitVars,
                   launchVars, verVars, owner, ucall, args_update, warnings, infos,
                   impVars>>

\* load_importer returns without a check when no further unit can be modelled.
LiNoSpawn(t) ==
    /\ UpdUnit(t, "li_spawn") /\ kind[t] = "load"
    /\ \A u \in Tid : tst[u] # "new"
    /\ Continue(t, "return")
    /\ UNCHANGED <<mpc, threads, error_queue, shown, tick_reports, kind, escaped, guiVars,
                   exitVars, launchVars, verVars, owner, ucall, args_update, warnings,
                   infos, impVars>>

\* run_as_thread: thread.start(); load_importer returns
LiStart(t, u) ==
    /\ UpdUnit(t, "li_start") /\ kind[t] = "load"
    /\ kind[u] = "bgcheck" /\ tst[u] = "created"
    /\ tst' = [tst EXCEPT ![u] = "running", ![t] = "returned"]
    /\ upc' = [upc EXCEPT ![u] = "up_check", ![t] = "done"]
    /\ ucall' = [ucall EXCEPT ![u] = Call(TRUE, FALSE, FALSE, "return", "raise")]
    /\ UNCHANGED <<mpc, threads, error_queue, shown, tick_reports, kind, escaped, guiVars,
                   exitVars, launchVars, verVars, owner, args_update, warnings, infos,
                   impVars>>

\* load_importer, last statement (and __init__ in quick launch mode):
\* self.run_as_thread(self.package_manager.update_packages, no_install=True,
\* silent=True). SpecUpdate starts the check without the statements of
\* load_importer before it, which touch the importer state only.
BackgroundCheck(t) ==
    /\ Running /\ mpc = "mainloop"
    /\ RunAsThread(t, "bgcheck")
    /\ ucall' = [ucall EXCEPT ![t] = Call(TRUE, FALSE, FALSE, "return", "raise")]
    /\ upc' = [upc EXCEPT ![t] = "up_check"]
    /\ UNCHANGED <<mpc, error_queue, shown, tick_reports, escaped, guiVars, exitVars,
                   launchVars, verVars, owner, args_update, warnings, infos, impVars>>

\* Config.Launcher.auto_update is set, so that auto_update goes on to install
InitUpdate ==
    /\ InitCore
    /\ cfg = [DefaultCfg EXCEPT !.auto_update = TRUE]

UpdatePackages(t) == UpCheck(t) \/ UpInstall(t) \/ UpInstallEnds(t) \/ UpNotify(t)

NextUpdate ==
    \/ \E t \in Tid : UpdateEvent(t)
    \/ \E t \in Tid : CheckForUpdatesEvent(t)
    \/ \E t \in Tid : AutoUpdateStart(t)
    \/ \E t \in Tid : BackgroundCheck(t)
    \/ \E t \in Tid : UpCheck(t)
    \/ \E t \in Tid : UpInstall(t)
    \/ \E t \in Tid : UpInstallEnds(t)
    \/ \E t \in Tid : UpNotify(t)
    \/ \E t \in Tid : CfuWarn(t)
    \/ \E t \in Tid : CfuAvailable(t)
    \/ \E t \in Tid : UsAvailable(t)
    \/ \E t \in Tid : UsList(t)
    \/ \E t \in Tid : UsAnswer(t)
    \/ \E t \in Tid : AuWarn(t)
    \/ \E t \in Tid : AuAvailable(t)
    \/ \E t \in Tid : AuLaunching(t)
    \/ \E t \in Tid : AuClear(t)
    \/ \E t \in Tid : WrapErrors(t)

SpecUpdate == InitUpdate /\ [][NextUpdate]_vars

\* One Launch event (Start is pressed once)
LaunchOnce(t) ==
    /\ \A u \in Tid : kind[u] # "launch"
    /\ LaunchEvent(t)

\* The startup auto_update unit and one launch, every step of both
NextAutoLaunch ==
    \/ \E t \in Tid : AutoUpdateStart(t)
    \/ \E t \in Tid : UpCheck(t)
    \/ \E t \in Tid : UpInstall(t)
    \/ \E t \in Tid : UpInstallEnds(t)
    \/ \E t \in Tid : UpNotify(t)
    \/ \E t \in Tid : AuWarn(t)
    \/ \E t \in Tid : AuAvailable(t)
    \/ \E t \in Tid : AuLaunching(t)
    \/ \E t \in Tid : AuClear(t)
    \/ \E t \in Tid : LaunchOnce(t)
    \/ \E t \in Tid : LaunchGuard(t)
    \/ \E t \in Tid : LaunchSetFlag(t)
    \/ \E t \in Tid : LaunchBusy(t)
    \/ \E t \in Tid : LaunchPre(t)
    \/ \E t \in Tid : LaunchStartGame(t)
    \/ \E t \in Tid : LaunchStartGameEnds(t)
    \/ \E t \in Tid : LaunchPost(t)
    \/ \E t \in Tid : LaunchFinally(t)
    \/ \E t \in Tid : LaunchClose(t)
    \/ \E t \in Tid : WrapErrors(t)
    \/ DeliverReady

SpecAutoLaunch == InitUpdate /\ [][NextAutoLaunch]_vars

\* One launch, other background units that may fail, and the check_threads tick
NextLaunchReport ==
    \/ \E t \in Tid : LaunchOnce(t)
    \/ \E t \in Tid : LaunchGuard(t)
    \/ \E t \in Tid : LaunchSetFlag(t)
    \/ \E t \in Tid : LaunchBusy(t)
    \/ \E t \in Tid : LaunchPre(t)
    \/ \E t \in Tid : LaunchStartGame(t)
    \/ \E t \in Tid : LaunchStartGameEnds(t)
    \/ \E t \in Tid : LaunchPost(t)
    \/ \E t \in Tid : LaunchFinally(t)
    \/ \E t \in Tid : LaunchClose(t)
    \/ \E t \in Tid : Dispatch(t)
    \/ \E t \in Tid : CallbackReturns(t)
    \/ \E t \in Tid : CallbackRaises(t)
    \/ \E t \in Tid : WrapErrors(t)
    \/ TickFire \/ TickReschedule \/ TickPrune \/ TickReport \/ TickDialogDismiss
    \/ DeliverReady

SpecLaunchReport == Init /\ [][NextLaunchReport]_vars

\* LoadImporter requests on their own: every step of load_importer and the
\* version check it starts
NextImporter ==
    \/ \E t \in Tid : LoadImporterEvent(t)
    \/ \E t \in Tid : LiCheck(t)
    \/ \E t \in Tid : LiUnload(t)
    \/ \E t \in Tid : LiSetActive(t)
    \/ \E t \in Tid : LiSetConfig(t)
    \/ \E t \in Tid : LiLoad(t)
    \/ \E t \in Tid : LiNotify(t)
    \/ \E t, u \in Tid : LiSpawn(t, u)
    \/ \E t \in Tid : LiNoSpawn(t)
    \/ \E t, u \in Tid : LiStart(t, u)
    \/ \E t \in Tid : UpCheck(t)
    \/ \E t \in Tid : UpNotify(t)
    \/ \E t \in Tid : WrapErrors(t)

SpecImporter == Init /\ [][NextImporter]_vars

\* LoadImporter requests while the check_threads tick runs on the control thread
NextTrack ==
    \/ NextImporter
    \/ TickFire \/ TickReschedule \/ TickPrune \/ TickReport \/ TickDialogDismiss

SpecTrack == Init /\ [][NextTrack]_vars

\* The window is open with the packages in any version state
InitVersions ==
    /\ InitBody
    /\ AuxIdle
    /\ mpc = "mainloop"
    /\ gui_shown = TRUE
    /\ tick_pending = TRUE
    /\ cfg = DefaultCfg
    /\ installed \in [Pkgs -> Versions]
    /\ latest \in [Pkgs -> Versions]
    /\ skipped \in [Pkgs -> Versions]
    /\ notif = Snapshot(installed, latest, skipped)

\* One CheckForUpdates event (the button is pressed once)
CheckForUpdatesOnce(t) ==
    /\ \A u \in Tid : kind[u] = "none"
    /\ CheckForUpdatesEvent(t)

\* check_for_updates from the event to its end, over every version state
NextVersions ==
    \/ \E t \in Tid : CheckForUpdatesOnce(t)
    \/ \E t \in Tid : UpCheck(t)
    \/ \E t \in Tid : UpInstall(t)
    \/ \E t \in Tid : UpInstallEnds(t)
    \/ \E t \in Tid : UpNotify(t)
    \/ \E t \in Tid : CfuWarn(t)
    \/ \E t \in Tid : CfuAvailable(t)
    \/ \E t \in Tid : UsAvailable(t)
    \/ \E t \in Tid : UsList(t)
    \/ \E t \in Tid : UsAnswer(t)

SpecVersions == InitVersions /\ [][NextVersions]_vars

(***************************************************************************)
(* Default importer: get_default_xxmi                                      *)
(***************************************************************************)

\* Longest installer-bundle name (in characters) that is tried
MsiLen == 4

\* Characters of installer-bundle names: letters of the patterns in upper or
\* lower case, and a letter ("x") of no pattern
Chars == {"W", "w", "Z", "z", "S", "r", "G", "i", "x"}

\* Values of --xxmi: absent, empty, an importer, any other text
XxmiArgs == {NoneValue, "", "SRMI", "custom"}

RECURSIVE SeqsUpTo(_)
SeqsUpTo(n) ==
    IF n = 0 THEN {<<>>}
    ELSE LET shorter == SeqsUpTo(n - 1) IN
         shorter \cup {Append(s, c) : s \in {x \in shorter : Len(x) = n - 1}, c \in Chars}

\* str.upper() of one (ASCII) character
UpperChar(c) ==
    CASE c = "w" -> "W"
      [] c = "z" -> "Z"
      [] c = "s" -> "S"
      [] c = "r" -> "R"
      [] c = "g" -> "G"
      [] c = "i" -> "I"
      [] OTHER -> c

\* self.args.msi.upper()
Upper(s) == [k \in 1..Len(s) |-> UpperChar(s[k])]

\* Truth value of an argument: None and the empty string are false
Truthy(x) == x # NoneValue /\ x # ""

\* A plausible slip: GI is tried first.
ModelImportersGiFirst ==
    << <<"G", "I", "GIMI">>, <<"W", "W", "WWMI">>, <<"Z", "Z", "ZZMI">>,
       <<"S", "R", "SRMI">> >>

\* model_importers, in the order of the dict literal: r'.*(WW).*': 'WWMI', ...
ModelImporters ==
    << <<"W", "W", "WWMI">>, <<"Z", "Z", "ZZMI">>, <<"S", "R", "SRMI">>,
       <<"G", "I", "GIMI">> >>

\* len(re.compile(pattern).findall(text)) is not zero: the two letters of the
\* pattern stand next to each other somewhere in text
FindAll(pat, text) ==
    \E k \in 1..(Len(text) - 1) : text[k] = pat[1] /\ text[k + 1] = pat[2]

\* for pattern, xxmi in model_importers.items(): the first pattern found in
\* text returns its importer; return None after the loop
RECURSIVE FirstMatch(_, _)
FirstMatch(k, text) ==
    IF k > Len(ModelImporters) THEN NoneValue
    ELSE IF FindAll(ModelImporters[k], text) THEN ModelImporters[k][3]
    ELSE FirstMatch(k + 1, text)

\* get_default_xxmi for the arguments a
GetDefaultXxmi(a) ==
    IF Truthy(a.xxmi) THEN a.xxmi
    ELSE IF ~(a.msi_given /\ a.msi # <<>>) THEN NoneValue
    ELSE FirstMatch(1, Upper(a.msi))

\* __init__ is about to call get_default_xxmi, with any command line
InitDefault ==
    /\ InitBody
    /\ VersionsAtStart
    /\ mpc = "mainloop"
    /\ gui_shown = TRUE
    /\ tick_pending = TRUE
    /\ cfg = DefaultCfg
    /\ \E x \in XxmiArgs, g \in BOOLEAN, m \in SeqsUpTo(MsiLen) :
          /\ ~g => m = <<>>
          /\ dflt = [xxmi |-> x, msi_given |-> g, msi |-> m, called |-> FALSE,
                     result |-> NoneValue]
    /\ fa = NoAccess
    /\ fr = FrameAtStart

\* __init__: default_xxmi = self.get_default_xxmi()
DefaultXxmi ==
    /\ ~dflt.called
    /\ dflt' = [dflt EXCEPT !.called = TRUE, !.result = GetDefaultXxmi(dflt)]
    /\ UNCHANGED <<coreVars, impVars, fa, fr>>

SpecDefault == InitDefault /\ [][DefaultXxmi]_vars

(***************************************************************************)
(* File access verification: handle_verify_file_access                     *)
(* (core/path_manager.py is not part of the sources at hand: the three     *)
(* Paths functions follow section 6 of the specification)                  *)
(***************************************************************************)

\* Paths.assert_file_read(path): passes if the path can be read
AssertFileRead(f) == IF f.readable THEN "pass" ELSE "error"

\* Paths.assert_file_write(path): raises FileReadOnlyError for a file with the
\* read-only flag, another error when the file cannot be written for another
\* reason, else passes
AssertFileWrite(f) ==
    IF f.read_only THEN "FileReadOnlyError"
    ELSE IF f.write_ok THEN "pass" ELSE "error"

\* Paths.remove_read_only(path): the read-only flag of the file is cleared
RemoveReadOnly(f) == [f EXCEPT !.read_only = FALSE]

\* The position after the read check or the write check has passed
AfterRead(f) == IF f.write THEN "write" ELSE IF f.exe THEN "exe" ELSE "done"
AfterWrite(f) == IF f.exe THEN "exe" ELSE "done"

\* A plausible slip: only an explicit Cancel counts as a refusal.
FlagRemoveUnlessCancel(ans) == ans # "cancel"

\* if user_requested_flag_remove: show_messagebox gave True (Confirm), not
\* False (Cancel) and not None (the dialogue was closed)
FlagRemoveRequested(ans) == ans = "confirm"

\* A VerifyFileAccess event is about to be handled, for any flags and any file
InitAccess ==
    /\ InitBody
    /\ VersionsAtStart
    /\ mpc = "mainloop"
    /\ gui_shown = TRUE
    /\ tick_pending = TRUE
    /\ cfg = DefaultCfg
    /\ dflt = NoDefault
    /\ fr = FrameAtStart
    /\ \E r, w, x, rd, ro, wo \in BOOLEAN :
          fa = [NoAccess EXCEPT !.read = r, !.write = w, !.exe = x, !.readable = rd,
                                !.read_only = ro, !.write_ok = wo, !.read_only0 = ro,
                                !.pc = "read"]

\* if event.read: Paths.assert_file_read(event.path, absolute=event.abs_path)
FaRead ==
    /\ fa.pc = "read"
    /\ UNCHANGED <<coreVars, impVars, dflt, fr>>
    /\ IF ~fa.read
         THEN fa' = [fa EXCEPT !.pc = AfterRead(fa)]
         ELSE IF AssertFileRead(fa) = "pass"
                THEN fa' = [fa EXCEPT !.pc = AfterRead(fa), !.read_checks = @ + 1]
                ELSE fa' = [fa EXCEPT !.pc = "done", !.read_checks = @ + 1,
                                      !.outcome = "read_error"]

\* if event.write: try: Paths.assert_file_write(event.path)
\* except Paths.FileReadOnlyError: the dialogue is shown
FaWrite ==
    /\ fa.pc = "write"
    /\ UNCHANGED <<coreVars, impVars, dflt, fr>>
    /\ LET res == AssertFileWrite(fa) IN
        fa' = [fa EXCEPT !.write_checks = @ + 1,
                         !.pc = CASE res = "pass" -> AfterWrite(fa)
                                  [] res = "FileReadOnlyError" -> "prompt"
                                  [] OTHER -> "done",
                         !.prompts = IF res = "FileReadOnlyError" THEN @ + 1 ELSE @,
                         !.outcome = IF res = "error" THEN "write_error" ELSE @]

\* The user answers the dialogue; if user_requested_flag_remove:
\* Paths.remove_read_only(event.path), and the write check follows; else:
\* raise ValueError('Failed to write critical file: ...')
FaAnswer ==
    /\ fa.pc = "prompt"
    /\ UNCHANGED <<coreVars, impVars, dflt, fr>>
    /\ \E ans \in {"confirm", "cancel", "closed"} :
          IF FlagRemoveRequested(ans)
            THEN fa' = [RemoveReadOnly(fa) EXCEPT !.answer = ans, !.pc = "retry"]
            ELSE fa' = [fa EXCEPT !.answer = ans, !.pc = "done",
                                  !.outcome = "critical_write"]

\* Paths.assert_file_write(event.path) after the flag was removed: an error it
\* raises is not caught here
FaRetry ==
    /\ fa.pc = "retry"
    /\ UNCHANGED <<coreVars, impVars, dflt, fr>>
    /\ LET res == AssertFileWrite(fa) IN
        fa' = [fa EXCEPT !.write_checks = @ + 1,
                         !.pc = IF res = "pass" THEN AfterWrite(fa) ELSE "done",
                         !.outcome = IF res = "pass" THEN @ ELSE "write_error"]

\* if event.exe: Paths.assert_file_read(event.path)
FaExe ==
    /\ fa.pc = "exe"
    /\ UNCHANGED <<coreVars, impVars, dflt, fr>>
    /\ fa' = [fa EXCEPT !.pc = "done", !.read_checks = @ + 1,
                        !.outcome = IF AssertFileRead(fa) = "pass" THEN @ ELSE "exe_error"]

HandleVerifyFileAccess == FaRead \/ FaWrite \/ FaAnswer \/ FaRetry \/ FaExe

SpecAccess == InitAccess /\ [][HandleVerifyFileAccess]_vars

(***************************************************************************)
(* LauncherFrame: the main action buttons (launcher_frame.py)              *)
(***************************************************************************)

\* Importer ids of LoadImporter events: the launcher's own page and a game
FrameImporters == {"XXMI", "GIMI"}

\* Stages of StageUpdate events
Stages == {"Ready", "Busy", "Download"}

\* package_states of a VersionNotification: version states of some packages
PackageStates ==
    UNION {[S -> [installed_version : {"", "1.3"}, latest_version : {"", "1.3"}]] :
             S \in SUBSET FrameImporters}

\* self.show(self.stage == Stage.Ready and Config.Launcher.active_importer != 'XXMI')
ShowWhenReady(b) == fr.stage[b] = "Ready" /\ active_importer # "XXMI"

\* StartButton: installed = package_state.installed_version != ''
StartEnabled(st) == st.installed_version # ""

\* InstallButton: not_installed = package_state.installed_version == ''
InstallEnabled(st) == st.installed_version = ""

\* UpdateButton: some package of the notification has a latest_version that
\* is not empty and differs from its installed_version
UpdatePendingIn(states) ==
    \E p \in DOMAIN states :
        states[p].latest_version # "" /\ states[p].installed_version # states[p].latest_version

\* An event is fired: its subscribers among the buttons are called one after
\* the other, in the order of subscription. A LoadImporter event also starts
\* load_importer on a background thread (app.py).
FrFire ==
    /\ fr.todo = <<>>
    /\ \E e \in [type : {"LoadImporter"}, importer_id : FrameImporters]
                \cup [type : {"StageUpdate"}, stage : Stages]
                \cup [type : {"VersionNotification"}, package_states : PackageStates] :
          fr' = [fr EXCEPT !.ev = e, !.todo = ButtonOrder, !.enabled0 = fr.enabled,
                           !.loading = IF e.type = "LoadImporter"
                                         THEN @ \cup {e.importer_id} ELSE @]
    /\ UNCHANGED <<coreVars, impVars, dflt, fa>>

\* MainActionButton.handle_load_importer
HandleLoadImporter(b) ==
    fr' = [fr EXCEPT !.shown[b] = (fr.ev.importer_id # "XXMI"), !.todo = Tail(@)]

\* MainActionButton.handle_stage_update
HandleStageUpdate(b) ==
    fr' = [fr EXCEPT !.stage[b] = fr.ev.stage,
                     !.shown[b] = (fr.ev.stage = "Ready" /\ active_importer # "XXMI"),
                     !.todo = Tail(@)]

\* handle_version_notification of UpdateButton, StartButton and InstallButton
\* (ToolsButton does not subscribe to the notification)
HandleVersionNotification(b) ==
    LET states == fr.ev.package_states
        known == active_importer \in DOMAIN states
    IN CASE b = "Update" ->
              IF UpdatePendingIn(states)
                THEN fr' = [fr EXCEPT !.enabled[b] = TRUE, !.shown[b] = ShowWhenReady(b),
                                      !.todo = Tail(@)]
                ELSE fr' = [fr EXCEPT !.enabled[b] = FALSE, !.shown[b] = FALSE,
                                      !.todo = Tail(@)]
         [] b = "Start" /\ known ->
              fr' = [fr EXCEPT !.enabled[b] = StartEnabled(states[active_importer]),
                               !.shown[b] = ShowWhenReady(b), !.todo = Tail(@)]
         [] b = "Install" /\ known ->
              fr' = [fr EXCEPT !.enabled[b] = InstallEnabled(states[active_importer]),
                               !.shown[b] = ShowWhenReady(b), !.todo = Tail(@)]
         [] OTHER -> fr' = [fr EXCEPT !.todo = Tail(@)]

\* The next subscriber of the event being delivered is called
FrHandle ==
    /\ fr.todo # <<>>
    /\ LET b == Head(fr.todo) IN
         CASE fr.ev.type = "LoadImporter" -> HandleLoadImporter(b)
           [] fr.ev.type = "StageUpdate" -> HandleStageUpdate(b)
           [] fr.ev.type = "VersionNotification" -> HandleVersionNotification(b)
    /\ UNCHANGED <<coreVars, impVars, dflt, fa>>

\* load_importer, on its background thread:
\* Config.Launcher.active_importer = importer_id
FrSetActive ==
    /\ \E id \in fr.loading :
          /\ active_importer' = id
          /\ fr' = [fr EXCEPT !.loading = @ \ {id}]
    /\ UNCHANGED <<coreVars, config_active, loaded, larg, dflt, fa>>

NextFrame == FrFire \/ FrHandle \/ FrSetActive

SpecFrame == Init /\ [][NextFrame]_vars

(***************************************************************************)
(* Quick launch mode: __init__ with --nogui                                *)
(***************************************************************************)

\* __init__ has reached "if self.args.nogui:" with the flag set: no window yet
InitQuick ==
    /\ InitBody
    /\ AuxIdle
    /\ VersionsAtStart
    /\ mpc = "ql_spawn"
    /\ gui_shown = FALSE
    /\ tick_pending = FALSE
    /\ \E ac \in BOOLEAN : cfg = [DefaultCfg EXCEPT !.auto_close = ac]

\* __init__: self.run_as_thread(self.package_manager.update_packages,
\* no_install=True, silent=True)
QlBackgroundCheck(t) ==
    /\ Running /\ mpc = "ql_spawn"
    /\ RunAsThread(t, "bgcheck")
    /\ ucall' = [ucall EXCEPT ![t] = Call(TRUE, FALSE, FALSE, "return", "raise")]
    /\ upc' = [upc EXCEPT ![t] = "up_check"]
    /\ mpc' = "ql_avail"
    /\ UNCHANGED <<error_queue, shown, tick_reports, escaped, guiVars, exitVars,
                   launchVars, verVars, owner, args_update, warnings, infos, impVars>>

\* __init__: self.update_scheduled() on the control thread:
\* if not self.package_manager.update_available(): return False
QlAvailable ==
    /\ Running /\ mpc = "ql_avail"
    /\ mpc' = IF UpdateAvailable THEN "ql_list" ELSE "ql_false"
    /\ UNCHANGED <<runnerVars, guiVars, exitVars, featVars>>

\* update_scheduled: the pending list; empty: return False, else the dialogue
QlList ==
    /\ Running /\ mpc = "ql_list"
    /\ mpc' = IF PendingUpdates = {} THEN "ql_false" ELSE "ql_dialog"
    /\ UNCHANGED <<runnerVars, guiVars, exitVars, featVars>>

\* update_scheduled: user_requested_update = self.gui.show_messagebox(...)
QlDialog ==
    /\ Running /\ mpc = "ql_dialog"
    /\ mpc' \in {"ql_update", "ql_skip", "ql_close"}
    /\ UNCHANGED <<runnerVars, guiVars, exitVars, featVars>>

\* The answer update_scheduled holds at each position
QlAnswerAt(pc) ==
    CASE pc = "ql_update" -> "update"
      [] pc = "ql_skip" -> "skip"
      [] pc = "ql_close" -> "close"

\* update_scheduled: skip_latest_updates() if the answer asks for it, then
\* return bool(user_requested_update)
QlAnswer ==
    /\ Running /\ mpc \in {"ql_update", "ql_skip", "ql_close"}
    /\ LET ans == QlAnswerAt(mpc) IN
          /\ skipped' = IF MarksSkipped(ans) THEN SkipLatestUpdates ELSE skipped
          /\ mpc' = IF UserRequestedUpdate(ans) THEN "ql_true" ELSE "ql_false"
    /\ UNCHANGED <<runnerVars, guiVars, exitVars, launchVars, installed, latest, notif,
                   updVars, impVars>>

\* __init__: if self.update_scheduled(): self.args.update = True, and __init__
\* goes on to the window (gui.initialize ... check_threads(), whose first run
\* is entered here); else: the game is launched.
QlScheduled ==
    /\ Running /\ mpc \in {"ql_true", "ql_false"}
    /\ IF mpc = "ql_true"
         THEN /\ args_update' = TRUE
              /\ gui_shown' = TRUE
              /\ tick_reports' = 0
              /\ tick_done0' = {t \in Tid : Terminated(t)}
              /\ mpc' = "ct_after"
         ELSE /\ mpc' = "ql_launch"
              /\ UNCHANGED <<args_update, gui_shown, tick_reports, tick_done0>>
    /\ UNCHANGED <<threads, error_queue, shown, kind, tst, escaped, gui_state,
                   tick_pending, prune_tmp, after_ready, stage, exitVars, launchVars,
                   verVars, owner, upc, ucall, warnings, infos, impVars>>

\* __init__: self.launch(), called on the control thread, from the guard to the
\* end: the flag is set and cleared again, Ready is scheduled unless auto_close;
\* either launch() returns (after Close with auto_close) or the error of the
\* except clause leaves launch() and, nothing catching it, __init__ as well, so
\* that self.exit() on the next line is not reached.
QlLaunch ==
    /\ Running /\ mpc = "ql_launch"
    /\ ~launching_game
    /\ launching_game' = FALSE
    /\ after_ready' = IF ~cfg.auto_close THEN after_ready + 1 ELSE after_ready
    /\ \/ /\ mpc' = "ql_exit"
          /\ close_fired' = IF cfg.auto_close THEN close_fired + 1 ELSE close_fired
       \/ /\ mpc' = "init_raised"
          /\ close_fired' = close_fired
    /\ UNCHANGED <<runnerVars, gui_state, gui_shown, tick_pending, prune_tmp, tick_done0,
                   stage, exitVars, restVars, lpc, lrec, cmd, verVars, updVars, impVars>>

\* __init__: self.exit() after the launch; exit starts the watchdog
QlExit ==
    /\ Running /\ mpc = "ql_exit"
    /\ wpc' = "sleep"
    /\ ji' = 1
    /\ mpc' = "x_join"
    /\ UNCHANGED <<runnerVars, guiVars, proc, is_alive, wd_polls, saves, flag_set_poll,
                   pushed_at_join, featVars>>

NextQuick ==
    \/ \E t \in Tid : QlBackgroundCheck(t)
    \/ QlAvailable \/ QlList \/ QlDialog \/ QlAnswer \/ QlScheduled \/ QlLaunch \/ QlExit
    \/ \E t \in Tid : UpCheck(t)
    \/ \E t \in Tid : UpNotify(t)
    \/ Next

\* A run started with --nogui: the quick launch, or the window after all when
\* the user asks for the update
SpecQuick == InitQuick /\ [][NextQuick]_vars

(***************************************************************************)
(* exit() called on a background unit                                      *)
(***************************************************************************)

\* The entry of the error channel that exit() itself pushes for its assertion
AssertionEntry == 0

\* A callback that calls self.exit() is dispatched as a background unit (a
\* subscriber of an event fired on a background thread runs on that thread).
ExitCallEvent(t) ==
    /\ Running /\ mpc = "mainloop"
    /\ \A u \in Tid : kind[u] # "exit"
    /\ RunAsThread(t, "exit")
    /\ upc' = [upc EXCEPT ![t] = "xo_assert"]
    /\ UNCHANGED <<mpc, error_queue, shown, tick_reports, escaped, guiVars, exitVars,
                   launchVars, verVars, owner, ucall, args_update, warnings, infos,
                   impVars>>

\* exit: assert current_thread() is main_thread() fails;
\* except Exception as e: self.error_queue.put_nowait((e, traceback.format_exc()))
XoAssert(t) ==
    /\ UpdUnit(t, "xo_assert") /\ kind[t] = "exit"
    /\ error_queue' = Append(error_queue, AssertionEntry)
    /\ upc' = [upc EXCEPT ![t] = "xo_watchdog"]
    /\ UNCHANGED <<mpc, threads, shown, tick_reports, kind, tst, escaped, guiVars,
                   exitVars, launchVars, verVars, owner, ucall, args_update, warnings,
                   infos, impVars>>

\* exit: watchdog_thread = Thread(target=self.watchdog, ...); watchdog_thread.start()
XoWatchdog(t) ==
    /\ UpdUnit(t, "xo_watchdog") /\ kind[t] = "exit"
    /\ wpc' = "sleep"
    /\ ji' = 1
    /\ upc' = [upc EXCEPT ![t] = "xo_join"]
    /\ UNCHANGED <<mpc, runnerVars, guiVars, proc, is_alive, wd_polls, saves,
                   flag_set_poll, pushed_at_join, launchVars, verVars, owner, ucall,
                   args_update, warnings, infos, impVars>>

\* exit: for thread in self.threads: thread.join(). The loop goes over the list
\* object that self.threads named when the loop began (check_threads binds a new
\* list, it does not change this one). Units are appended in the order of their
\* ids and only ended units are ever pruned, so the loop meets, in the order
\* of their ids, units that have ended or that it waits for, and then the
\* calling unit itself: Thread.join() on the current thread raises
\* RuntimeError, which leaves exit() for wrap_errors.
XoJoin(t) ==
    /\ UpdUnit(t, "xo_join") /\ kind[t] = "exit"
    /\ IF ji = t
         THEN /\ Continue(t, "raise")
              /\ ji' = ji
         ELSE /\ Terminated(ji)
              /\ ji' = ji + 1
              /\ UNCHANGED <<upc, tst>>
    /\ UNCHANGED <<mpc, threads, error_queue, shown, tick_reports, kind, escaped, guiVars,
                   proc, is_alive, wpc, wd_polls, saves, flag_set_poll, pushed_at_join,
                   launchVars, verVars, owner, ucall, args_update, warnings, infos,
                   impVars>>

\* The window stays open while a background unit calls exit()
NextExitCall ==
    \/ \E t \in Tid : Dispatch(t)
    \/ \E t \in Tid : CallbackReturns(t)
    \/ \E t \in Tid : CallbackRaises(t)
    \/ \E t \in Tid : CallbackHangs(t)
    \/ \E t \in Tid : WrapErrors(t)
    \/ TickFire \/ TickReschedule \/ TickPrune \/ TickReport \/ TickDialogDismiss
    \/ DeliverReady
    \/ ToggleWindow
    \/ \E t \in Tid : ExitCallEvent(t)
    \/ \E t \in Tid : XoAssert(t)
    \/ \E t \in Tid : XoWatchdog(t)
    \/ \E t \in Tid : XoJoin(t)
    \/ WatchdogSleep \/ WatchdogCheckAlive \/ WatchdogCheckTime

SpecExitCall == Init /\ [][NextExitCall]_vars

(***************************************************************************)
(* Properties                                                              *)
(***************************************************************************)

\* Number of entries of sequence s equal to x
Count(s, x) == Cardinality({i \in 1..Len(s) : s[i] = x})

ExitStarted == wpc # "off"

\* Positions of launch() between setting and clearing self.launching_game
InLaunch == {"busy", "pre", "pre_wait", "start", "starting", "post", "post_wait", "finally"}

\* The launch() call of unit t is over (returned, or left by its exception).
LaunchOver(t) == kind[t] = "launch" /\ lpc[t] = "done"

\* C1: at most one launch sequence is between setting and clearing the launching
\* flag, and a launch that found the flag set did nothing.
C1_SingleFlight ==
    /\ Cardinality({t \in Tid : lpc[t] \in InLaunch}) <= 1
    /\ \A t \in Tid :
          (LaunchOver(t) /\ ~lrec[t].passed) =>
              (~lrec[t].busy /\ lrec[t].game = "none" /\ cmd[t] = NoCmd)

\* C9 as stated: after a launch that passed the guard the flag was cleared and
\* Close (auto-close) or Ready (otherwise) was scheduled, also when a step raised.
C9_CleanupInFull ==
    \A t \in Tid :
        (LaunchOver(t) /\ lrec[t].passed) =>
            /\ lrec[t].cleared
            /\ IF cfg.auto_close THEN lrec[t].close ELSE lrec[t].ready

\* C9 amended: the flag is always cleared; without auto-close Ready is always
\* scheduled; with auto-close Close is fired exactly when steps 1-3 did not raise.
C9_CleanupByOutcome ==
    \A t \in Tid :
        (LaunchOver(t) /\ lrec[t].passed) =>
            /\ lrec[t].cleared
            /\ IF cfg.auto_close
                 THEN ~lrec[t].ready /\ (lrec[t].close <=> ~lrec[t].exc)
                 ELSE lrec[t].ready /\ ~lrec[t].close

C9_Witness ==
    \E t \in Tid :
        /\ LaunchOver(t) /\ lrec[t].passed /\ lrec[t].exc
        /\ cfg.auto_close /\ ~lrec[t].close /\ lrec[t].cleared

\* C10: with a waited pre-launch hook the game start signal is not fired before
\* the command has exited, and the post-load command is never started before the
\* game start signal has returned.
C10_LaunchOrder ==
    \A t \in Tid :
        /\ (lrec[t].game # "none" /\ cfg.pre_on) => cmd[t].pre # "none"
        /\ (lrec[t].game # "none" /\ cfg.pre_on /\ cfg.pre_wait) =>
                cmd[t].pre \in {"exited", "failed"}
        /\ cmd[t].post # "none" => lrec[t].game = "returned"

C10_Witness ==
    \E t \in Tid :
        /\ cfg.pre_on /\ cfg.pre_wait /\ cmd[t].pre = "exited"
        /\ lrec[t].game = "returned" /\ cmd[t].post = "running"

\* A step of launch t has failed: an exception was raised in steps 1-3, or a
\* command that was waited for came back with a non-zero exit code
StepFailed(t) ==
    \/ lrec[t].exc
    \/ cfg.pre_on /\ cfg.pre_wait /\ cmd[t].pre = "failed"
    \/ cfg.post_on /\ cfg.post_wait /\ cmd[t].post = "failed"

\* C11: a failure in steps 1-3 of a launch, a waited pre-launch command that
\* exits non-zero included, aborts the remaining steps, and once the unit has
\* ended the error that names the active importer is exactly one entry of the
\* error channel (queued or already surfaced).
C11_FailureAbortsAndWraps ==
    \A t \in Tid :
        kind[t] = "launch" =>
            /\ (cfg.pre_on /\ cfg.pre_wait /\ cmd[t].pre = "failed") =>
                    lrec[t].game = "none" /\ cmd[t].post = "none"
            /\ (lrec[t].exc /\ lrec[t].game = "none") => cmd[t].post = "none"
            /\ lrec[t].game = "raised" => cmd[t].post = "none"
            /\ (StepFailed(t) /\ Terminated(t)) =>
                    /\ lrec[t].name = active_importer
                    /\ Count(error_queue \o shown, t) = 1

\* A load_importer call is in progress
LoadInProgress == \E t \in Tid : kind[t] = "load" /\ IsAlive(t)

\* C12: a load_importer call that gets past its first test calls
\* unload_package, then load_package(importer_id), then broadcasts the version
\* notification, in this order and all before it returns; the importer it
\* unloads is the one that was active when it was entered (no other call
\* having switched importers meanwhile).
C12_UnloadLoadNotify ==
    \A t \in Tid :
        kind[t] = "load" =>
            LET c == larg[t].calls IN
            /\ \A i \in 1..Len(c) :
                    /\ c[i][1] = "unload" => i = 1
                    /\ c[i][1] = "load" => i = 2 /\ c[1][1] = "unload" /\ c[i][2] = larg[t].id
                    /\ c[i][1] = "notify" => i = 3 /\ c[2][1] = "load"
            /\ (Len(c) >= 1 /\ \A u \in Tid \ {t} : larg[u].calls = <<>>) =>
                    c[1] = <<"unload", larg[t].old>>
            /\ Terminated(t) =>
                    IF larg[t].old = larg[t].id /\ ~larg[t].reload
                      THEN c = <<>>
                      ELSE Len(c) = 3 /\ c[3][1] = "notify"

C12_Witness ==
    \E t \in Tid :
        /\ kind[t] = "load" /\ Terminated(t)
        /\ larg[t].old = "GIMI" /\ larg[t].id = "SRMI"
        /\ larg[t].calls = <<<<"unload", "GIMI">>, <<"load", "SRMI">>, <<"notify", "SRMI">>>>

\* C13: whenever no load_importer call is in progress exactly one importer
\* package is loaded, and it is the one named by Config.Launcher.active_importer
\* and referenced by Config.Active.
C13_OneActiveImporter ==
    ~LoadInProgress =>
        /\ loaded = {active_importer}
        /\ config_active = active_importer

\* Units inside the install transition of package p
Installing(p) ==
    {t \in Tid : upc[t] = "up_installing" /\ PkgOrder[ucall[t].p] = p}

C3_ExitTerminates == ExitStarted ~> (proc # "running")

\* C4: the watchdog terminates the process only after the deadline has passed
\* with the not-alive flag unset; when the flag is set before the deadline the
\* watchdog returns and exit() goes on to save the configuration.
C4_WatchdogOnlyAfterDeadline ==
    /\ proc = "killed" =>
            /\ wd_polls > GracePolls
            /\ (is_alive \/ flag_set_poll > GracePolls)
    /\ saves > 0 => (wpc = "returned" /\ ~is_alive /\ proc # "killed")

C4_Witness ==
    /\ saves = 1 /\ wpc = "returned"
    /\ Len(threads) = MaxThreads
    /\ flag_set_poll \in 1..GracePolls

\* C5: a callback that raises puts exactly one entry on the error channel, the
\* error does not leave the unit and the put is never blocked; a callback that
\* returns puts none.
C5_OneEntryPerRaise ==
    \A t \in Tid :
        /\ ~escaped[t]
        /\ Count(error_queue \o shown, t) = (IF tst[t] = "failed" THEN 1 ELSE 0)
        /\ (Running /\ tst[t] = "raised") => ENABLED WrapErrors(t)

C5_Witness ==
    /\ tst[1] = "failed" /\ tst[2] = "returned"
    /\ Count(error_queue \o shown, 1) = 1

\* C6: a check_threads tick in the interactive-ready state removes and surfaces
\* exactly one error when the channel is non-empty and none when it is empty.
C6_TickSurfacesOne ==
    [][(mpc = "ct_report" /\ mpc' # mpc /\ gui_state = "normal") =>
            IF error_queue # <<>>
              THEN /\ error_queue' = Tail(error_queue)
                   /\ shown' = Append(shown, Head(error_queue))
                   /\ tick_reports' = 1
              ELSE /\ error_queue' = error_queue
                   /\ shown' = shown
                   /\ tick_reports' = 0]_vars

C6_Witness ==
    /\ mpc = "ct_dialog" /\ tick_reports = 1
    /\ Len(shown) = 1 /\ Len(error_queue) = 1

\* C7: a check_threads tick outside the interactive-ready state leaves the error
\* channel alone and shows nothing, but has pruned the finished units and has
\* rescheduled the next tick.
C7_TickSkipsReport ==
    [][(mpc = "ct_report" /\ mpc' # mpc /\ gui_state # "normal") =>
            /\ error_queue' = error_queue
            /\ shown' = shown
            /\ tick_reports' = 0
            /\ mpc' = "mainloop"
            /\ tick_pending'
            /\ SeqToSet(threads') \cap tick_done0 = {}]_vars

C7_Witness ==
    /\ mpc = "ct_report" /\ gui_state = "iconic"
    /\ error_queue # <<>> /\ tick_done0 # {} /\ tick_pending

\* C8 as stated: when the process has terminated every pushed error has been
\* surfaced.
C8_NoErrorLost ==
    proc # "running" =>
        \A t \in Tid : tst[t] = "failed" => Count(shown, t) = 1

\* C8 amended: every error pushed before exit() cleared the alive flag has been
\* surfaced when exit() terminates the process, and no queued error is dropped
\* while the process runs.
C8_JoinedErrorsSurfaced ==
    /\ proc = "exited" => pushed_at_join \subseteq SeqToSet(shown)
    /\ \A t \in Tid : tst[t] = "failed" => Count(error_queue \o shown, t) = 1

C8_Witness ==
    /\ proc = "exited" /\ tick_reports = 2
    /\ Cardinality(pushed_at_join) = 2

\* Every unit of the in-flight set has ended
AllJoined == \A i \in 1..Len(threads) : Terminated(threads[i])

\* C14: exit() starts the watchdog, joins every unit of the in-flight set, then
\* marks the process not-alive, then joins the watchdog, then saves the
\* configuration, then drains the residual errors, then terminates; the
\* configuration is never saved while a unit of the in-flight set is running.
C14_ExitOrder ==
    /\ mpc \in {"x_join", "x_notalive"} => (is_alive /\ saves = 0 /\ wpc # "off")
    /\ mpc \in {"x_notalive", "x_wdjoin", "x_save", "x_drain", "x_dialog", "x_terminate"} =>
            AllJoined
    /\ ~is_alive => AllJoined
    /\ mpc \in {"x_wdjoin", "x_save"} => (~is_alive /\ saves = 0)
    /\ mpc = "x_save" => wpc = "returned"
    /\ saves > 0 => (AllJoined /\ ~is_alive /\ wpc = "returned")
    /\ mpc \in {"x_drain", "x_dialog", "x_terminate"} => saves = 1
    /\ mpc = "x_terminate" => error_queue = <<>>
    /\ proc = "exited" => (mpc = "x_terminate" /\ saves = 1 /\ error_queue = <<>>)

C14_Witness ==
    /\ proc = "exited" /\ saves = 1
    /\ Len(threads) = MaxThreads /\ AllJoined
    /\ Len(shown) = 1 /\ error_queue = <<>>

\* C15 as stated: in every execution that has ended in process termination the
\* configuration has been saved exactly once, and never before exit() started.
C15_SavedExactlyOnce ==
    /\ proc # "running" => saves = 1
    /\ saves > 0 => ExitStarted

\* C15 amended: the configuration is saved at most once and never before exit()
\* has started; exactly once when exit() terminates the process, not at all
\* when the watchdog does, nor when launch() raises in quick launch mode.
C15_SavedAtMostOnce ==
    /\ saves <= 1
    /\ saves > 0 => ExitStarted
    /\ proc = "exited" => saves = 1
    /\ proc = "killed" => saves = 0
    /\ mpc = "init_raised" => (saves = 0 /\ ~ExitStarted)

C15_Witness ==
    /\ proc = "exited" /\ saves = 1
    /\ ~gui_shown /\ ~tick_pending
    /\ kind[1] = "bgcheck" /\ Terminated(1)

\* C16: exit() invoked on a thread other than the control thread pushes exactly
\* one entry for the failed assertion and then goes through its whole
\* sequence: no error makes it leave exit() before the end.
C16_OffThreadExitCompletes ==
    \A t \in Tid :
        kind[t] = "exit" =>
            /\ upc[t] # "xo_assert" => Count(error_queue \o shown, AssertionEntry) = 1
            /\ tst[t] \notin {"raised", "failed"}

\* C17: run_as_thread with no_thread=True enters the callback on the calling
\* thread and returns only when it has ended, hands back the callback's return
\* value, passes the other keyword arguments but not no_thread, and neither
\* the call nor the callback's end (an error included) changes the in-flight
\* set or the error channel.
C17_NoThreadIsSynchronous ==
    /\ [](/\ (mpc = "sync_cb") <=> (sync.state = "callback")
          /\ sync.state # "none" =>
                 /\ "no_thread" \in sync.given
                 /\ sync.passed = sync.given \ {"no_thread"}
          /\ sync.state = "returned" => (sync.ret = sync.cbret /\ sync.ret \in Vals)
          /\ sync.state \in {"callback", "raised"} => sync.ret = "None")
    /\ [][(sync' # sync) =>
              /\ threads' = threads
              /\ error_queue' = error_queue
              /\ kind' = kind /\ tst' = tst]_vars

C17_Witness ==
    /\ sync.state = "returned" /\ sync.ret = "b"
    /\ sync.given = {"k", "no_thread"} /\ sync.passed = {"k"}
    /\ Len(threads) = 1 /\ error_queue # <<>>

\* C18: every background unit that has been started and has not ended is a
\* member of the in-flight set, and when a check_threads tick has pruned, the
\* set holds no unit that had ended when the tick began.
C18_InFlightExact ==
    /\ \A t \in Tid : IsAlive(t) => t \in SeqToSet(threads)
    /\ mpc = "ct_report" => SeqToSet(threads) \cap tick_done0 = {}

\* The last version notification shows the packages as they are now
NotifFresh == notif = Snapshot(installed, latest, skipped)

\* C19: on a version snapshot that is up to date, update_available() is true
\* exactly when the pending list of update_scheduled is non-empty; a call of
\* update_scheduled that gets to the list prompts the user exactly when the
\* list is non-empty, and it always is when the snapshot is up to date.
C19_PendingMatchesAvailable ==
    /\ [](NotifFresh => (UpdateAvailable <=> PendingUpdates # {}))
    /\ [](\A t \in Tid : upc[t] = "us_dialog" => PendingUpdates # {})
    /\ [](\A t \in Tid : (upc[t] = "us_list" /\ NotifFresh) => PendingUpdates # {})
    /\ [][\A t \in Tid :
            (upc[t] = "us_list" /\ upc'[t] # "us_list") =>
                (upc'[t] = "us_dialog" <=> PendingUpdates # {})]_vars

C19_Witness ==
    \E t \in Tid :
        /\ upc[t] = "us_dialog" /\ NotifFresh
        /\ installed["GIMI"] = "" /\ latest["GIMI"] = "1.2" /\ skipped["GIMI"] = "1.3"
        /\ installed["SRMI"] = "1.3" /\ latest["SRMI"] = "1.3"

\* Package p has an update the user has not declined
UpdatePending(p) ==
    latest[p] # "" /\ latest[p] # installed[p] /\ latest[p] # skipped[p]

C21_SilentFailureUnseen ==
    /\ \A t \in Tid : kind[t] = "bgcheck" => Count(shown, t) = 0
    /\ "auto" \in warnings => args_update

\* The upper-case letter u in either case
EitherCase(u) ==
    CASE u = "W" -> {"W", "w"}
      [] u = "Z" -> {"Z", "z"}
      [] u = "S" -> {"S", "s"}
      [] u = "R" -> {"R", "r"}
      [] u = "G" -> {"G", "g"}
      [] u = "I" -> {"I", "i"}

\* The letters a, b stand next to each other in the name s, each in either case
OccursAnyCase(a, b, s) ==
    \E k \in 1..(Len(s) - 1) : s[k] \in EitherCase(a) /\ s[k + 1] \in EitherCase(b)

\* C22: get_default_xxmi returns an explicit (non-empty) --xxmi argument
\* unchanged; else None when there is no (or an empty) --msi name; else the
\* importer of the first of WW, ZZ, SR, GI that occurs in the name in any
\* case, or None when none of them occurs.
C22_DefaultImporter ==
    dflt.called =>
        dflt.result =
            IF dflt.xxmi \notin {NoneValue, ""} THEN dflt.xxmi
            ELSE IF ~dflt.msi_given \/ Len(dflt.msi) = 0 THEN NoneValue
            ELSE IF OccursAnyCase("W", "W", dflt.msi) THEN "WWMI"
            ELSE IF OccursAnyCase("Z", "Z", dflt.msi) THEN "ZZMI"
            ELSE IF OccursAnyCase("S", "R", dflt.msi) THEN "SRMI"
            ELSE IF OccursAnyCase("G", "I", dflt.msi) THEN "GIMI"
            ELSE NoneValue

C22_Witness ==
    /\ dflt.called /\ dflt.xxmi = NoneValue
    /\ dflt.msi = <<"G", "i", "w", "W">>
    /\ dflt.result = "WWMI"

\* The read check of the request fails
ReadCheckFails == fa.read /\ ~fa.readable

\* C23: a request with the write flag on a read-only file, whose read check
\* did not fail, prompts the user once; after Confirm the read-only flag is
\* cleared and the write check is made a second time and no more; after Cancel
\* or closing the dialogue the flag is as it was and the handler has raised
\* the critical-file-write error after one write check. A request whose read
\* check fails makes no write check and shows no prompt.
C23_ReadOnlyPrompt ==
    /\ (fa.write /\ fa.read_only0 /\ ~ReadCheckFails /\ fa.pc \notin {"read", "write"})
          => fa.prompts = 1
    /\ fa.prompts <= 1 /\ fa.write_checks <= 2
    /\ (fa.prompts = 1 /\ fa.answer = "none") => fa.pc = "prompt"
    /\ fa.answer = "confirm" =>
          /\ ~fa.read_only
          /\ fa.write_checks = (IF fa.pc = "retry" THEN 1 ELSE 2)
          /\ fa.outcome # "critical_write"
    /\ fa.answer \in {"cancel", "closed"} =>
          /\ fa.read_only = fa.read_only0
          /\ fa.pc = "done" /\ fa.outcome = "critical_write"
          /\ fa.write_checks = 1
    /\ (ReadCheckFails /\ fa.pc # "read") =>
          /\ fa.pc = "done" /\ fa.outcome = "read_error"
          /\ fa.write_checks = 0 /\ fa.prompts = 0

C23_Witness ==
    /\ fa.read /\ fa.write /\ fa.exe /\ fa.read_only0
    /\ fa.answer = "confirm" /\ fa.pc = "done" /\ fa.outcome = "none"
    /\ fa.write_checks = 2 /\ fa.read_checks = 2

\* C24: update_scheduled returns true after Update and marks nothing as
\* skipped; after Skip it calls skip_latest_updates() and returns false; after
\* the dialogue is closed it returns false and marks nothing; when
\* update_available() is false it returns false at once, with no dialogue
\* and nothing marked.
C24_AnswerMapping ==
    /\ [][(mpc = "ql_update" /\ mpc' # mpc) => (mpc' = "ql_true" /\ skipped' = skipped)]_vars
    /\ [][(mpc = "ql_skip" /\ mpc' # mpc) =>
              (mpc' = "ql_false" /\ skipped' = SkipLatestUpdates)]_vars
    /\ [][(mpc = "ql_close" /\ mpc' # mpc) => (mpc' = "ql_false" /\ skipped' = skipped)]_vars
    /\ [][(mpc = "ql_avail" /\ ~UpdateAvailable /\ mpc' # mpc) =>
              (mpc' = "ql_false" /\ skipped' = skipped)]_vars
    /\ [][(mpc' = "ql_true" /\ mpc # mpc') => mpc = "ql_update"]_vars
    /\ [][(skipped' # skipped) => mpc = "ql_skip"]_vars

C24_Witness ==
    /\ mpc = "ql_false"
    /\ \A p \in Pkgs : installed[p] = "1.2" /\ latest[p] = "1.3" /\ skipped[p] = "1.3"

\* The install call of auto_update (update_packages with no_check) takes its
\* first step in this transition
AutoInstallBegins(t) ==
    /\ kind[t] = "auto" /\ upc[t] = "up_check" /\ ucall[t].no_check
    /\ upc'[t] # "up_check"

\* C25: the install call of auto_update never begins to run while
\* self.launching_game is set.
C25_NoInstallDuringLaunch ==
    [][\A t \in Tid : AutoInstallBegins(t) => ~launching_game]_vars

\* The launch of unit t has fired Busy and has not yet cleared the flag
LaunchInProgress(t) == kind[t] = "launch" /\ lrec[t].busy /\ ~lrec[t].cleared

\* C26: while a launch is between its Busy event and the clearing of the
\* launching flag, no Ready notification is delivered and the stage of the
\* launcher frame is not Ready, also when check_threads reports the error
\* of another unit in the meantime.
C26_NotReadyDuringLaunch ==
    /\ [](\A t \in Tid : LaunchInProgress(t) => stage # "Ready")
    /\ [][(\E t \in Tid : LaunchInProgress(t)) => after_ready' >= after_ready]_vars

\* C27: once an event has been delivered to all the buttons, a main action
\* button is shown only if the stage it has received is Ready and the active
\* importer is not XXMI.
C27_ShownOnlyWhenReady ==
    (fr.ev.type # "none" /\ fr.todo = <<>>) =>
        \A b \in Buttons : fr.shown[b] => ShowWhenReady(b)

\* The delivery of a VersionNotification to the buttons ends in this step
NotificationDelivered ==
    fr.ev.type = "VersionNotification" /\ fr.todo # <<>> /\ fr'.todo = <<>>

\* C28: when a version notification with the active importer's state has been
\* delivered, Start is enabled iff the installed version is not empty and
\* Install iff it is empty; a notification without the active importer's state
\* leaves both as they were.
C28_StartXorInstall ==
    [][NotificationDelivered =>
        LET states == fr.ev.package_states IN
        IF active_importer \in DOMAIN states
          THEN /\ fr'.enabled["Start"] = (states[active_importer].installed_version # "")
               /\ fr'.enabled["Install"] = (states[active_importer].installed_version = "")
          ELSE /\ fr'.enabled["Start"] = fr.enabled0["Start"]
               /\ fr'.enabled["Install"] = fr.enabled0["Install"]]_vars

====
